---- MODULE Spec2Model ----
(***************************************************************************)
(* Model of ref_finder: the provider adapters (extract_metadata), the      *)
(* renderers (format_apa_from_metadata, format_bibtex, ...) and the search *)
(* worker that aggregates the four providers' results.                     *)
(*                                                                         *)
(* Text is a sequence of one-character strings, so that split, strip,     *)
(* upper, lower, replace and endswith are computed character by character. *)
(* A Python value is a tagged record [t |-> tag, v |-> payload]; a raised  *)
(* exception is the value Raise(name) returned in place of a result.       *)
(*                                                                         *)
(* Spec is the GUI application: perform_search starts a SearchWorker, the  *)
(* worker calls the four searches in turn and emits signals, and the slots *)
(* update_progress, process_results and handle_error consume them.         *)
(* SpecApa, SpecApaOther, SpecExtract and SpecRender each apply one        *)
(* function of find_ref.py to every argument of a bounded set.             *)
(* SpecRerender calls the renderers again and again on one list, and       *)
(* SpecSearch applies a provider search to every cache file, clock and     *)
(* reply of a bounded set. SpecQuery makes two searches, each for a query  *)
(* of a bounded set, over one cache directory. SpecSave is Spec with the   *)
(* Save and Append buttons, and FairSpec is Spec with the fairness of the  *)
(* worker thread and of the event loop.                                    *)
(***************************************************************************)
EXTENDS Integers, Sequences, FiniteSets, TLC

VARIABLES
    arg,      \* the argument of the function under call
    src,      \* the source tag passed to extract_metadata ("" when unused)
    ret,      \* what the call returned (Pending before it returns)
    fpc,      \* "ready" before the call, then the name of the function called
    calls,       \* the calls made so far: what each found and what it returned
    cache_file,  \* the cache file of the query under search
    cache_dir,   \* the files of ~/.ref_finder_cache, by the hash in their name
    saved_file,  \* the file the last save wrote: its path and its text
    clock,       \* datetime.now(), in hours
    response,    \* what requests.get and the response do for the query
    \* ReferenceManagerApp
    search_button,    \* isEnabled() of the three buttons
    save_button,
    append_button,
    status_label,     \* the words of the status line
    format_combo,     \* currentText() of the format selector
    results_text,     \* the text view
    results_list,     \* the items of the list view
    search_results,   \* self.search_results
    metadata_list,    \* self.metadata_list
    app,              \* "running", or "aborted" once a slot has raised
    searches,         \* how many searches the user has started
    \* SearchWorker
    search_worker,    \* the worker's author, year, keyword, use_cache
    worker_pc,        \* where run() stands
    results,          \* the locals of run()
    crossref_results,
    google_results,
    semantic_results,
    open_library_results,
    signals           \* the signals emitted by the worker, not yet delivered

evars == <<calls, cache_file, cache_dir, saved_file, clock, response>>
fvars == <<arg, src, ret, fpc, evars>>
gvars == <<search_button, save_button, append_button, status_label, format_combo,
           results_text, results_list, search_results, metadata_list, app, searches>>
wvars == <<search_worker, worker_pc, results, crossref_results, google_results,
           semantic_results, open_library_results>>
pvars == <<gvars, wvars, signals>>
vars == <<fvars, pvars>>

----------------------------------------------------------------------------
(* Python values *)

PyNone == [t |-> "none"]
PyStr(s) == [t |-> "str", v |-> s]
PyInt(n) == [t |-> "int", v |-> n]
PyList(l) == [t |-> "list", v |-> l]
PyDict(d) == [t |-> "dict", v |-> d]
Raise(e) == [t |-> "raise", v |-> e]
Pending == [t |-> "pending"]

IsStr(x) == x.t = "str"
IsList(x) == x.t = "list"
IsDict(x) == x.t = "dict"
IsRaise(x) == x.t = "raise"

\* bool(x)
Truthy(x) ==
    CASE x.t = "none" -> FALSE
      [] x.t = "str"  -> x.v # <<>>
      [] x.t = "int"  -> x.v # 0
      [] x.t = "list" -> x.v # <<>>
      [] x.t = "dict" -> DOMAIN x.v # {}

\* d.get(k, dflt) on the mapping d
Get(d, k, dflt) == IF k \in DOMAIN d THEN d[k] ELSE dflt

EmptyDict == [k \in {} |-> PyNone]

----------------------------------------------------------------------------
(* Characters and strings *)

LowerCase == <<"a","b","c","d","e","f","g","h","i","j","k","l","m",
               "n","o","p","q","r","s","t","u","v","w","x","y","z">>
UpperCase == <<"A","B","C","D","E","F","G","H","I","J","K","L","M",
               "N","O","P","Q","R","S","T","U","V","W","X","Y","Z">>
Digits == <<"0","1","2","3","4","5","6","7","8","9">>

\* U+2013, the character pages.replace('-', ...) writes
EnDash == "u2013"

IsSpace(c) == c \in {" ", "\t", "\n", "\r"}

Position(seq, c) == CHOOSE i \in 1..Len(seq) : seq[i] = c
Occurs(seq, c) == \E i \in 1..Len(seq) : seq[i] = c

char_upper(c) == IF Occurs(LowerCase, c) THEN UpperCase[Position(LowerCase, c)] ELSE c
char_lower(c) == IF Occurs(UpperCase, c) THEN LowerCase[Position(UpperCase, c)] ELSE c

str_upper(s) == [i \in 1..Len(s) |-> char_upper(s[i])]
str_lower(s) == [i \in 1..Len(s) |-> char_lower(s[i])]

\* s.capitalize()
str_capitalize(s) ==
    IF s = <<>> THEN s ELSE <<char_upper(s[1])>> \o str_lower(Tail(s))

\* s.endswith(c) for a one-character suffix
str_endswith(s, c) == s # <<>> /\ s[Len(s)] = c

\* s.replace(old, new) for a one-character old
str_replace(s, old, new) == [i \in 1..Len(s) |-> IF s[i] = old THEN new ELSE s[i]]

RECURSIVE split_from(_, _, _)
split_from(s, cur, acc) ==
    IF s = <<>>
    THEN IF cur = <<>> THEN acc ELSE Append(acc, cur)
    ELSE IF IsSpace(Head(s))
         THEN split_from(Tail(s), <<>>, IF cur = <<>> THEN acc ELSE Append(acc, cur))
         ELSE split_from(Tail(s), Append(cur, Head(s)), acc)

\* s.split(): the maximal runs of non-whitespace characters
str_split(s) == split_from(s, <<>>, <<>>)

RECURSIVE lstrip(_)
lstrip(s) == IF s # <<>> /\ IsSpace(Head(s)) THEN lstrip(Tail(s)) ELSE s

RECURSIVE rstrip(_)
rstrip(s) ==
    IF s # <<>> /\ IsSpace(s[Len(s)]) THEN rstrip(SubSeq(s, 1, Len(s) - 1)) ELSE s

\* s.strip()
str_strip(s) == rstrip(lstrip(s))

RECURSIVE str_join(_, _)
\* sep.join(parts), parts a sequence of texts
str_join(sep, parts) ==
    IF parts = <<>> THEN <<>>
    ELSE IF Len(parts) = 1 THEN parts[1]
    ELSE parts[1] \o sep \o str_join(sep, Tail(parts))

RECURSIVE nat_digits(_)
nat_digits(n) ==
    IF n < 10 THEN <<Digits[n + 1]>>
    ELSE Append(nat_digits(n \div 10), Digits[(n % 10) + 1])

\* str(n) of an int
int_str(n) == IF n < 0 THEN <<"-">> \o nat_digits(-n) ELSE nat_digits(n)

\* what an f-string writes for {x}: str(x)
Format(x) ==
    CASE x.t = "str"  -> x.v
      [] x.t = "none" -> <<"N","o","n","e">>
      [] x.t = "int"  -> int_str(x.v)

----------------------------------------------------------------------------
(* format_apa_from_metadata *)

Article == <<"a","r","t","i","c","l","e">>
Book == <<"b","o","o","k">>

\* ''.join([f"{n[0]}." for n in parts[:-1]])
RECURSIVE initials(_)
initials(parts) ==
    IF parts = <<>> THEN <<>>
    ELSE <<Head(parts)[1], ".">> \o initials(Tail(parts))

\* apa_author with the initials separated by a space ("Doe, J. M.")
apa_author_spaced(author) ==
    LET parts == str_split(author)
    IN  IF Len(parts) > 1
        THEN parts[Len(parts)] \o <<",", " ">>
             \o str_join(<<" ">>, [i \in 1..(Len(parts) - 1) |-> <<parts[i][1], ".">>])
        ELSE author

\* one author name in APA style: "Last, F.M.", or the name as it is
apa_author(author) ==
    LET parts == str_split(author)
    IN  IF Len(parts) > 1
        THEN parts[Len(parts)] \o <<",", " ">>
             \o initials(SubSeq(parts, 1, Len(parts) - 1))
        ELSE author

\* the loop over authors: authors is a sequence of texts
authors_apa(authors) == [i \in 1..Len(authors) |-> apa_author(authors[i])]

\* authors_str without the comma before the ampersand
authors_str_no_comma(names) ==
    IF names = <<>> THEN <<>>
    ELSE IF Len(names) = 1 THEN names[1]
    ELSE str_join(<<",", " ">>, SubSeq(names, 1, Len(names) - 1))
         \o <<" ", "&", " ">> \o names[Len(names)]

\* the author list joined
authors_str(names) ==
    IF names = <<>> THEN <<>>
    ELSE IF Len(names) = 1 THEN names[1]
    ELSE str_join(<<",", " ">>, SubSeq(names, 1, Len(names) - 1))
         \o <<",", " ", "&", " ">> \o names[Len(names)]

\* the helper _format_author_list, which no renderer calls
format_author_list(authors) ==
    IF authors = <<>> THEN <<>>
    ELSE IF Len(authors) > 1
    THEN str_join(<<",", " ">>, SubSeq(authors, 1, Len(authors) - 1))
         \o <<" ", "&", " ">> \o authors[Len(authors)]
    ELSE authors[1]

\* apa_title with sentence case for every type
apa_title_all_lower(title, type) ==
    <<char_upper(title[1])>> \o str_lower(Tail(title))

\* title casing: sentence case for an article, first letter forced otherwise
\* (type is the value of metadata['type'])
apa_title(title, type) ==
    IF type = PyStr(Article)
    THEN <<char_upper(title[1])>> \o str_lower(Tail(title))
    ELSE <<char_upper(title[1])>> \o Tail(title)

StopWords ==
    { <<"a">>, <<"a","n">>, <<"t","h","e">>, <<"a","n","d">>, <<"b","u","t">>,
      <<"o","r">>, <<"f","o","r">>, <<"n","o","r">>, <<"o","n">>, <<"a","t">>,
      <<"t","o">>, <<"f","r","o","m">>, <<"b","y">>, <<"i","n">>, <<"o","f">> }

journal_title_case(journal) ==
    LET journal_words == str_split(journal)
        w(i) == journal_words[i]
    IN  str_join(<<" ">>,
            [i \in 1..Len(journal_words) |->
                IF str_lower(w(i)) \notin StopWords \/ i = 1
                THEN str_capitalize(w(i)) ELSE str_lower(w(i))])

\* apa_pages replacing the hyphen of a single range only
apa_pages_single_range(pages) ==
    <<",", " ">> \o (IF Cardinality({i \in 1..Len(pages) : pages[i] = "-"}) = 1
                     THEN str_replace(pages, "-", EnDash) ELSE pages)

\* ", {pages}" with the hyphens replaced
apa_pages(pages) == <<",", " ">> \o str_replace(pages, "-", EnDash)

\* the closing period of the article branch
article_close(reference) ==
    IF ~str_endswith(reference, ".") THEN reference \o <<".">> ELSE reference

\* book_close appending a period whatever the text ends with
book_close_always(reference) == reference \o <<".">>

\* the closing period of the book branch
book_close(reference) ==
    IF ~str_endswith(reference, ".") THEN reference \o <<".">> ELSE reference

DoiPrefix ==
    <<" ","h","t","t","p","s",":","/","/","d","o","i",".","o","r","g","/">>
IsbnPrefix == <<" ","I","S","B","N",":"," ">>
UnknownReference ==
    <<"U","n","k","n","o","w","n"," ","r","e","f","e","r","e","n","c","e",
      " ","f","o","r","m","a","t",".">>

\* "{authors_str} ({year}). ": the start of both branches
apa_lead(metadata, names) ==
    names \o <<" ", "(">> \o Format(Get(metadata, "year", PyStr(<<>>)))
    \o <<")", ".", " ">>

\* apa_volume writing the issue even when the volume is empty
apa_volume_issue_alone(metadata) ==
    LET volume == Get(metadata, "volume", PyStr(<<>>))
        issue == Get(metadata, "issue", PyStr(<<>>))
    IN  (IF Truthy(volume) THEN <<",", " ">> \o Format(volume) ELSE <<>>)
        \o (IF Truthy(issue) THEN <<"(">> \o Format(issue) \o <<")">> ELSE <<>>)

\* ", {volume}" and "({issue})"
apa_volume(metadata) ==
    LET volume == Get(metadata, "volume", PyStr(<<>>))
        issue == Get(metadata, "issue", PyStr(<<>>))
    IN  IF Truthy(volume)
        THEN <<",", " ">> \o Format(volume)
             \o (IF Truthy(issue) THEN <<"(">> \o Format(issue) \o <<")">> ELSE <<>>)
        ELSE <<>>

\* the article branch up to the pages: reference before the DOI handling
article_text(metadata, names, title) ==
    LET journal == Get(metadata, "journal", PyStr(<<>>))
        pages == Get(metadata, "pages", PyStr(<<>>))
    IN  apa_lead(metadata, names) \o title \o <<".", " ">>
        \o (IF Truthy(journal) THEN journal_title_case(journal.v) ELSE <<>>)
        \o apa_volume(metadata)
        \o (IF Truthy(pages) THEN apa_pages(pages.v) ELSE <<>>)

\* the article branch, given the formatted authors and title
apa_article(metadata, names, title) ==
    LET journal == Get(metadata, "journal", PyStr(<<>>))
        pages == Get(metadata, "pages", PyStr(<<>>))
        doi == Get(metadata, "doi", PyStr(<<>>))
    IN  IF (Truthy(journal) /\ ~IsStr(journal)) \/ (Truthy(pages) /\ ~IsStr(pages))
        THEN Raise("AttributeError")
        ELSE IF Truthy(doi)
        THEN PyStr(article_close(article_text(metadata, names, title))
                   \o DoiPrefix \o Format(doi))
        ELSE PyStr(article_close(article_text(metadata, names, title)))

\* the book branch up to the publisher: reference before "End with period"
book_text(metadata, names, title) ==
    LET publisher == Get(metadata, "publisher", PyStr(<<>>))
    IN  apa_lead(metadata, names) \o title
        \o (IF Truthy(publisher) THEN <<".", " ">> \o Format(publisher) ELSE <<>>)

\* the book branch, given the formatted authors and title
apa_book(metadata, names, title) ==
    LET isbn == Get(metadata, "isbn", PyStr(<<>>))
    IN  IF Truthy(isbn)
        THEN PyStr(book_close(book_text(metadata, names, title))
                   \o IsbnPrefix \o Format(isbn))
        ELSE PyStr(book_close(book_text(metadata, names, title)))

\* the texts of a list of str values
Texts(l) == [i \in 1..Len(l) |-> l[i].v]

\* the title as the branches write it: cased when non-empty
apa_cased_title(metadata) ==
    LET title == Get(metadata, "title", PyStr(<<>>))
    IN  IF Truthy(title) THEN apa_title(title.v, metadata["type"]) ELSE Format(title)

format_apa_from_metadata(metadata) ==
    LET authors == Get(metadata, "authors", PyList(<<>>))
        title == Get(metadata, "title", PyStr(<<>>))
    IN  IF ~IsList(authors) THEN Raise("TypeError")
        ELSE IF \E i \in 1..Len(authors.v) : ~IsStr(authors.v[i])
        THEN Raise("AttributeError")
        ELSE IF Truthy(title) /\ ~IsStr(title) THEN Raise("AttributeError")
        ELSE IF "type" \notin DOMAIN metadata THEN Raise("KeyError")
        ELSE
        LET names == authors_str(authors_apa(Texts(authors.v)))
            type == metadata["type"]
            cased == apa_cased_title(metadata)
        IN  IF type = PyStr(Article) THEN apa_article(metadata, names, cased)
            ELSE IF type = PyStr(Book) THEN apa_book(metadata, names, cased)
            ELSE PyStr(UnknownReference)

----------------------------------------------------------------------------
(* extract_metadata *)

Crossref == <<"c","r","o","s","s","r","e","f">>
GoogleBooks == <<"g","o","o","g","l","e","_","b","o","o","k","s">>
SemanticScholar ==
    <<"s","e","m","a","n","t","i","c","_","s","c","h","o","l","a","r">>
OpenLibrary == <<"o","p","e","n","_","l","i","b","r","a","r","y">>

Unknown == <<"U","n","k","n","o","w","n">>
UnknownPublisher ==
    <<"U","n","k","n","o","w","n"," ","p","u","b","l","i","s","h","e","r">>
Isbn13 == <<"I","S","B","N","_","1","3">>
Isbn10 == <<"I","S","B","N","_","1","0">>

\* x[0]
Index0(x) ==
    CASE x.t = "list" -> IF x.v = <<>> THEN Raise("IndexError") ELSE x.v[1]
      [] x.t = "str"  -> IF x.v = <<>> THEN Raise("IndexError") ELSE PyStr(<<x.v[1]>>)
      [] x.t = "dict" -> Raise("KeyError")
      [] x.t \in {"none", "int"} -> Raise("TypeError")

\* x[:4]
Slice4(x) ==
    CASE x.t = "str"  -> PyStr(SubSeq(x.v, 1, IF Len(x.v) < 4 THEN Len(x.v) ELSE 4))
      [] x.t = "list" -> PyList(SubSeq(x.v, 1, IF Len(x.v) < 4 THEN Len(x.v) ELSE 4))
      [] x.t \in {"none", "int", "dict"} -> Raise("TypeError")

\* x.get(k, dflt) on a value: only a dict has get
ValueGet(x, k, dflt) ==
    IF IsDict(x) THEN Get(x.v, k, dflt) ELSE Raise("AttributeError")

\* the first exception among values, or ok when none raised
FirstRaise(values, ok) ==
    IF \E i \in 1..Len(values) : IsRaise(values[i])
    THEN values[CHOOSE i \in 1..Len(values) :
                  /\ IsRaise(values[i])
                  /\ \A j \in 1..(i - 1) : ~IsRaise(values[j])]
    ELSE ok

\* the elements a loop over x visits: the items of a list, the characters of
\* a str, the keys of a dict; None and an int are not iterable
Elements(x) ==
    CASE x.t = "list" -> x
      [] x.t = "str"  -> PyList([i \in 1..Len(x.v) |-> PyStr(<<x.v[i]>>)])
      [] x.t = "dict" -> IF DOMAIN x.v = {} THEN PyList(<<>>)
                         ELSE PyList(<<PyStr(<<"k","e","y">>)>>)
      [] x.t \in {"none", "int"} -> Raise("TypeError")

\* [f(a) for a in x], f reading a with a.get
Comprehension(x, f(_)) ==
    LET elements == Elements(x)
    IN  IF IsRaise(elements) THEN elements
        ELSE IF \E i \in 1..Len(elements.v) : ~IsDict(elements.v[i])
        THEN Raise("AttributeError")
        ELSE PyList([i \in 1..Len(elements.v) |-> f(elements.v[i].v)])

\* f"{a.get('given', '')} {a.get('family', '')}".strip()
crossref_author(a) ==
    PyStr(str_strip(Format(Get(a, "given", PyStr(<<>>))) \o <<" ">>
                    \o Format(Get(a, "family", PyStr(<<>>)))))

\* date_parts[0] if date_parts else None
crossref_year(item) ==
    LET issued == Get(item, "issued", PyDict(EmptyDict))
        parts == ValueGet(issued, "date-parts", PyList(<<PyList(<<PyNone>>)>>))
        date_parts == IF IsRaise(parts) THEN parts ELSE Index0(parts)
    IN  IF IsRaise(date_parts) THEN date_parts
        ELSE IF Truthy(date_parts) THEN Index0(date_parts) ELSE PyNone

extract_crossref(item) ==
    LET authors == Comprehension(Get(item, "author", PyList(<<>>)), crossref_author)
        title == Index0(Get(item, "title", PyList(<<PyStr(<<>>)>>)))
        journal == Index0(Get(item, "container-title", PyList(<<PyStr(<<>>)>>)))
        year == crossref_year(item)
    IN  FirstRaise(<<authors, title, journal, year>>,
            PyDict([source |-> PyStr(Crossref), authors |-> authors, title |-> title,
                    journal |-> journal, year |-> year,
                    volume |-> Get(item, "volume", PyStr(<<>>)),
                    issue |-> Get(item, "issue", PyStr(<<>>)),
                    pages |-> Get(item, "page", PyStr(<<>>)),
                    doi |-> Get(item, "DOI", PyStr(<<>>)),
                    type |-> PyStr(Article)]))

\* Google Books authors with the crossref default, an empty list
google_books_authors_empty(volume_info) ==
    ValueGet(volume_info, "authors", PyList(<<>>))

\* volume_info.get('authors', ['Unknown'])
google_books_authors(volume_info) ==
    ValueGet(volume_info, "authors", PyList(<<PyStr(Unknown)>>))

\* the identifier of the first ISBN_13 or ISBN_10 entry, '' when there is none
RECURSIVE first_isbn(_)
first_isbn(identifiers) ==
    IF identifiers = <<>> THEN PyStr(<<>>)
    ELSE IF ~IsDict(Head(identifiers)) THEN Raise("AttributeError")
    ELSE IF Get(Head(identifiers).v, "type", PyNone) \in {PyStr(Isbn13), PyStr(Isbn10)}
    THEN Get(Head(identifiers).v, "identifier", PyStr(<<>>))
    ELSE first_isbn(Tail(identifiers))

google_books_isbn(volume_info) ==
    LET identifiers == ValueGet(volume_info, "industryIdentifiers", PyList(<<>>))
    IN  IF IsRaise(identifiers) THEN identifiers
        ELSE IF IsRaise(Elements(identifiers)) THEN Elements(identifiers)
        ELSE first_isbn(Elements(identifiers).v)

\* published_date[:4] if published_date else ''
google_books_year(volume_info) ==
    LET published_date == ValueGet(volume_info, "publishedDate", PyStr(<<>>))
    IN  IF IsRaise(published_date) THEN published_date
        ELSE IF Truthy(published_date) THEN Slice4(published_date) ELSE PyStr(<<>>)

extract_google_books(item) ==
    LET volume_info == Get(item, "volumeInfo", PyDict(EmptyDict))
        authors == google_books_authors(volume_info)
        title == ValueGet(volume_info, "title", PyStr(<<>>))
        publisher == ValueGet(volume_info, "publisher", PyStr(UnknownPublisher))
        year == google_books_year(volume_info)
        isbn == google_books_isbn(volume_info)
    IN  FirstRaise(<<authors, title, publisher, year, isbn>>,
            PyDict([source |-> PyStr(GoogleBooks), authors |-> authors, title |-> title,
                    publisher |-> publisher, year |-> year, isbn |-> isbn,
                    type |-> PyStr(Book)]))

\* author.get('name', '')
semantic_scholar_author(author) == Get(author, "name", PyStr(<<>>))

\* item.get('venue', '') or item.get('journal', {}).get('name', '')
semantic_scholar_journal(item) ==
    LET venue == Get(item, "venue", PyStr(<<>>))
    IN  IF Truthy(venue) THEN venue
        ELSE ValueGet(Get(item, "journal", PyDict(EmptyDict)), "name", PyStr(<<>>))

extract_semantic_scholar(item) ==
    LET authors == Comprehension(Get(item, "authors", PyList(<<>>)), semantic_scholar_author)
        journal == semantic_scholar_journal(item)
        doi == ValueGet(Get(item, "externalIds", PyDict(EmptyDict)), "DOI", PyStr(<<>>))
    IN  FirstRaise(<<authors, journal, doi>>,
            PyDict([source |-> PyStr(SemanticScholar), authors |-> authors,
                    title |-> Get(item, "title", PyStr(<<>>)), journal |-> journal,
                    year |-> Get(item, "year", PyNone), doi |-> doi,
                    url |-> Get(item, "url", PyStr(<<>>)),
                    type |-> PyStr(Article)]))

\* item.get(k, [dflt])[0] if item.get(k) else dflt
first_or_default(item, k, dflt) ==
    IF Truthy(Get(item, k, PyNone)) THEN Index0(Get(item, k, PyList(<<PyStr(dflt)>>)))
    ELSE PyStr(dflt)

\* extract_open_library typing its record 'article'
extract_open_library_as_article(item) ==
    LET publisher == first_or_default(item, "publisher", UnknownPublisher)
        isbn == first_or_default(item, "isbn", <<>>)
    IN  FirstRaise(<<publisher, isbn>>,
            PyDict([source |-> PyStr(OpenLibrary),
                    authors |-> Get(item, "author_name", PyList(<<PyStr(Unknown)>>)),
                    title |-> Get(item, "title", PyStr(<<>>)), publisher |-> publisher,
                    year |-> Get(item, "first_publish_year", PyStr(<<>>)),
                    isbn |-> isbn, type |-> PyStr(Article)]))

extract_open_library(item) ==
    LET publisher == first_or_default(item, "publisher", UnknownPublisher)
        isbn == first_or_default(item, "isbn", <<>>)
    IN  FirstRaise(<<publisher, isbn>>,
            PyDict([source |-> PyStr(OpenLibrary),
                    authors |-> Get(item, "author_name", PyList(<<PyStr(Unknown)>>)),
                    title |-> Get(item, "title", PyStr(<<>>)), publisher |-> publisher,
                    year |-> Get(item, "first_publish_year", PyStr(<<>>)),
                    isbn |-> isbn, type |-> PyStr(Book)]))

extract_metadata(item, source) ==
    IF source = Crossref THEN extract_crossref(item)
    ELSE IF source = GoogleBooks THEN extract_google_books(item)
    ELSE IF source = SemanticScholar THEN extract_semantic_scholar(item)
    ELSE IF source = OpenLibrary THEN extract_open_library(item)
    ELSE PyDict([source |-> PyStr(source)])

----------------------------------------------------------------------------
(* ReferenceManagerApp as constructed *)

TextApa == "Text (APA)"
Formats == {TextApa, "JSON", "CSV", "BibTeX"}

\* the cache checkbox, checked at construction and left so
use_cache_checkbox == TRUE

Constructed ==
    /\ search_button = TRUE
    /\ save_button = FALSE
    /\ append_button = FALSE
    /\ status_label = <<"Ready">>
    /\ format_combo = TextApa
    /\ results_text = <<>>
    /\ results_list = <<>>
    /\ search_results = <<>>
    /\ metadata_list = <<>>
    /\ app = "running"
    /\ searches = 0
    /\ search_worker = PyNone
    /\ worker_pc = "none"
    /\ results = <<>>
    /\ crossref_results = <<>>
    /\ google_results = <<>>
    /\ semantic_results = <<>>
    /\ open_library_results = <<>>
    /\ signals = <<>>

\* no cache file, no reply and no call yet: the state of the variables that
\* only the searches and the repeated renderings use
NoFile == [t |-> "missing"]
NoDir == [query_hash \in {} |-> NoFile]
NoEnvironment ==
    /\ calls = <<>>
    /\ cache_file = NoFile
    /\ cache_dir = NoDir
    /\ saved_file = NoFile
    /\ clock = 0
    /\ response = PyNone

----------------------------------------------------------------------------
(* Bounded inputs *)

\* every text over alphabet of at most n characters
Strs(alphabet, n) == UNION { [1..k -> alphabet] : k \in 0..n }

\* every list of at most n elements of S
Lists(S, n) == UNION { [1..k -> S] : k \in 0..n }

MaxNameLen == 4
MaxAuthors == 3
MaxTitleLen == 3
MaxPagesLen == 4
MaxFieldLen == 1

JaneDoe == <<"J","a","n","e"," ","D","o","e">>
JohnSmith == <<"J","o","h","n"," ","S","m","i","t","h">>
AnnLee == <<"A","n","n"," ","L","e","e">>
JaneMaryDoe == <<"J","a","n","e"," ","M","a","r","y"," ","D","o","e">>
Plato == <<"P","l","a","t","o">>

\* an article record as the Crossref adapter builds it
ArticleRecord(authors, year, title, journal, volume, issue, pages, doi) ==
    [source |-> PyStr(Crossref), authors |-> PyList(authors), title |-> PyStr(title),
     journal |-> PyStr(journal), year |-> year, volume |-> PyStr(volume),
     issue |-> PyStr(issue), pages |-> PyStr(pages), doi |-> PyStr(doi),
     type |-> PyStr(Article)]

\* a book record as the Google Books adapter builds it
BookRecord(authors, year, title, publisher, isbn) ==
    [source |-> PyStr(GoogleBooks), authors |-> PyList(authors),
     title |-> PyStr(title), publisher |-> PyStr(publisher), year |-> year,
     isbn |-> PyStr(isbn), type |-> PyStr(Book)]

Year2020 == PyInt(2020)
Years == {PyNone, PyStr(<<>>), Year2020, PyStr(<<"1","9","9","9">>)}

----------------------------------------------------------------------------
(* The records handed to format_apa_from_metadata *)

NameAlphabet == {"j", "D", " "}
TitleAlphabet == {"t", "F", " ", "?"}
PagesAlphabet == {"1", "-", "S"}
EndAlphabet == {"x", ".", "?", "!"}

SampleNames == {JaneDoe, JohnSmith, AnnLee, JaneMaryDoe, Plato}

TheFutureOfAi ==
    <<"t","h","e"," ","F","u","t","u","r","e"," ","o","f"," ","a","i">>
TheGreatGatsby ==
    <<"t","h","e"," ","g","r","e","a","t"," ","g","a","t","s","b","y">>
Pages123 == <<"1","2","3","-","1","4","5">>
PagesS1 == <<"S","1","-","S","1","0">>
Pages10 == <<"1","0","-","1","2","-","1","5">>
PagesE == <<"e","1","2","3">>
Nature == <<"n","a","t","u","r","e">>
Penguin == <<"P","e","n","g","u","i","n">>

StrValues(S) == { PyStr(x) : x \in S }

\* one author of any spelling, or up to MaxAuthors sample authors
AuthorInputs ==
    LET lists == { <<PyStr(n)>> : n \in Strs(NameAlphabet, MaxNameLen) }
                 \cup Lists(StrValues(SampleNames), MaxAuthors)
    IN  { ArticleRecord(a, Year2020, <<"t">>, Nature, <<>>, <<>>, <<>>, <<>>) : a \in lists }
        \cup { BookRecord(a, Year2020, <<"t">>, Penguin, <<>>) : a \in lists }

TitleInputs ==
    LET titles == Strs(TitleAlphabet, MaxTitleLen) \cup {TheFutureOfAi, TheGreatGatsby}
    IN  { ArticleRecord(<<PyStr(JaneDoe)>>, Year2020, t, Nature, <<>>, <<>>, <<>>, <<>>) :
            t \in titles }
        \cup { BookRecord(<<PyStr(JaneDoe)>>, Year2020, t, p, <<>>) :
                 t \in titles, p \in {<<>>, Penguin} }

PagesInputs ==
    { ArticleRecord(<<PyStr(JaneDoe)>>, Year2020, <<"t">>, j, v, <<>>, p, <<>>) :
        j \in {<<>>, Nature}, v \in {<<>>, <<"7">>},
        p \in Strs(PagesAlphabet, MaxPagesLen) \cup {Pages123, PagesS1, Pages10, PagesE} }

\* every ending of the title and of the journal, then every mix of the
\* volume, issue, pages and doi after a journal
ArticleEndInputs ==
    { ArticleRecord(<<PyStr(JaneDoe)>>, Year2020, t, j, <<>>, <<>>, p, d) :
        t \in Strs(EndAlphabet, MaxFieldLen), j \in Strs(EndAlphabet, MaxFieldLen),
        p \in {<<>>, <<"1","-","9">>, <<"e","1",".">>}, d \in {<<>>, <<"1","0",".","1","/","x">>} }
    \cup
    { ArticleRecord(<<PyStr(JaneDoe)>>, y, <<"x">>, j, v, i, p, d) :
        y \in {PyNone, Year2020}, j \in Strs(EndAlphabet, MaxFieldLen),
        v \in {<<>>, <<"7">>}, i \in {<<>>, <<"2">>},
        p \in {<<>>, <<"1","-","9">>, <<"e","1",".">>}, d \in {<<>>, <<"1","0",".","1","/","x">>} }

\* rec without the keys in drop
Without(rec, drop) == [k \in DOMAIN rec \ drop |-> rec[k]]

BookInputs ==
    LET full == { BookRecord(<<PyStr(JaneDoe)>>, Year2020, t, p, i) :
                    t \in Strs(EndAlphabet, MaxFieldLen),
                    p \in Strs(EndAlphabet, MaxFieldLen) \cup {Penguin},
                    i \in {<<>>, <<"9","7","8">>} }
                \cup
                { BookRecord(a, y, t, Penguin, i) :
                    a \in {<<>>, <<PyStr(JaneDoe)>>}, y \in Years,
                    t \in Strs(EndAlphabet, MaxFieldLen),
                    i \in {<<>>, <<"9","7","8">>} }
    IN  full \cup { Without(r, {"publisher"}) : r \in full }
             \cup { Without(r, {"isbn", "year"}) : r \in full }

ApaInputs == AuthorInputs \cup TitleInputs \cup PagesInputs \cup ArticleEndInputs \cup BookInputs

ApaInit ==
    /\ arg \in ApaInputs
    /\ src = <<>>
    /\ ret = Pending
    /\ fpc = "ready"
    /\ Constructed
    /\ NoEnvironment

\* a call of format_apa_from_metadata(arg)
FormatApa ==
    /\ fpc = "ready"
    /\ ret' = format_apa_from_metadata(arg)
    /\ fpc' = "format_apa"
    /\ UNCHANGED <<arg, src, evars, pvars>>

ApaNext == FormatApa

SpecApa == ApaInit /\ [][ApaNext]_vars

\* records whose type is neither 'article' nor 'book': another value, a
\* different case, the empty string, null, or no 'type' key at all
Chapter == <<"c","h","a","p","t","e","r">>
ArticleCapital == <<"A","r","t","i","c","l","e">>
OtherTypes == { PyStr(Chapter), PyStr(ArticleCapital), PyStr(<<>>), PyNone }

OtherTypeInputs ==
    LET base == TitleInputs \cup
                { ArticleRecord(a, y, t, Nature, <<"7">>, <<"2">>, Pages123, <<>>) :
                    a \in {<<>>, <<PyStr(JaneDoe)>>}, y \in Years, t \in {<<>>, <<"x">>} }
    IN  { [r EXCEPT !["type"] = ty] : r \in base, ty \in OtherTypes }
        \cup { Without(r, {"type"}) : r \in base }

OtherTypeInit ==
    /\ arg \in OtherTypeInputs
    /\ src = <<>>
    /\ ret = Pending
    /\ fpc = "ready"
    /\ Constructed
    /\ NoEnvironment

SpecApaOther == OtherTypeInit /\ [][FormatApa]_vars

----------------------------------------------------------------------------
(* The raw items handed to extract_metadata *)

MaxRawAuthors == 2
MaxIdentifiers == 2

Absent == [t |-> "absent"]

\* the dict holding the keys of choice whose value is not Absent
MkItem(choice) == [k \in {k \in DOMAIN choice : choice[k] # Absent} |-> choice[k]]

Jane == <<"J","a","n","e">>
Doe == <<"D","o","e">>
Isbn978 == <<"9","7","8">>
Date2020 == <<"2","0","2","0","-","0","5","-","0","1">>

\* the plain fields of a Crossref item: present together, alone, or not at all
CrossrefPlain ==
    { [volume |-> Absent, issue |-> Absent, page |-> Absent, DOI |-> Absent],
      [volume |-> PyStr(<<"7">>), issue |-> PyStr(<<"2">>), page |-> PyStr(Pages123),
       DOI |-> PyStr(<<"1","0",".","1","/","x">>)],
      [volume |-> PyStr(<<"7">>), issue |-> Absent, page |-> Absent, DOI |-> Absent],
      [volume |-> Absent, issue |-> Absent, page |-> PyStr(PagesE), DOI |-> Absent] }

CrossrefAuthorEntries ==
    { PyDict([given |-> PyStr(Jane), family |-> PyStr(Doe)]),
      PyDict([family |-> PyStr(Plato)]),
      PyDict([name |-> PyStr(JaneDoe)]),
      PyNone }

CrossrefDates ==
    { Absent, PyNone, PyDict(EmptyDict),
      PyDict([k \in {"date-parts"} |-> PyList(<<>>)]),
      PyDict([k \in {"date-parts"} |-> PyList(<<PyList(<<>>)>>)]),
      PyDict([k \in {"date-parts"} |-> PyList(<<PyList(<<PyNone>>)>>)]),
      PyDict([k \in {"date-parts"} |-> PyList(<<PyList(<<Year2020, PyInt(5)>>)>>)]) }

CrossrefItems ==
    { MkItem([k \in {"author", "title", "container-title", "issued"} \cup DOMAIN plain |->
                CASE k = "author" -> a
                  [] k = "title" -> t
                  [] k = "container-title" -> j
                  [] k = "issued" -> d
                  [] OTHER -> plain[k]]) :
        a \in {Absent, PyNone} \cup { PyList(l) : l \in Lists(CrossrefAuthorEntries, MaxRawAuthors) },
        t \in {Absent, PyList(<<>>), PyList(<<PyStr(TheFutureOfAi)>>), PyNone},
        j \in {Absent, PyList(<<>>), PyList(<<PyStr(Nature)>>)},
        d \in CrossrefDates, plain \in CrossrefPlain }

Identifiers ==
    { PyDict([type |-> PyStr(Isbn13), identifier |-> PyStr(Isbn978)]),
      PyDict([type |-> PyStr(Isbn10)]),
      PyDict([type |-> PyStr(<<"O","T","H","E","R">>), identifier |-> PyStr(<<"x">>)]),
      PyDict(EmptyDict) }

VolumeInfos ==
    { PyDict(MkItem([authors |-> a, title |-> t, publisher |-> p, publishedDate |-> d,
                     industryIdentifiers |-> i])) :
        a \in {Absent, PyList(<<>>), PyList(<<PyStr(JaneDoe), PyStr(JohnSmith)>>)},
        t \in {Absent, PyStr(<<>>), PyStr(TheGreatGatsby)},
        p \in {Absent, PyStr(Penguin)},
        d \in {Absent, PyStr(<<>>), PyStr(<<"2","0">>), PyStr(Date2020)},
        i \in {Absent, PyNone} \cup { PyList(l) : l \in Lists(Identifiers, MaxIdentifiers) } }

GoogleBooksItems ==
    { MkItem([volumeInfo |-> v]) : v \in {Absent, PyNone} \cup VolumeInfos }

SemanticScholarItems ==
    { MkItem([authors |-> a, title |-> t, venue |-> v, journal |-> j, year |-> y,
              externalIds |-> e, url |-> u]) :
        a \in {Absent} \cup
              { PyList(l) : l \in Lists({PyDict([name |-> PyStr(JaneDoe)]),
                                         PyDict([name |-> PyNone]),
                                         PyDict(EmptyDict)}, MaxRawAuthors) },
        t \in {Absent, PyNone, PyStr(TheFutureOfAi)},
        v \in {Absent, PyStr(<<>>), PyStr(Nature)},
        j \in {Absent, PyNone, PyDict(EmptyDict), PyDict([name |-> PyStr(Nature)])},
        y \in {Absent, PyNone, Year2020},
        e \in {Absent, PyNone, PyDict(EmptyDict),
               PyDict([k \in {"DOI"} |-> PyStr(<<"1","0",".","1","/","x">>)])},
        u \in {Absent, PyStr(<<"u">>)} }

OpenLibraryItems ==
    { MkItem([author_name |-> a, title |-> t, publisher |-> p, first_publish_year |-> y,
              isbn |-> i]) :
        a \in {Absent, PyList(<<>>), PyList(<<PyStr(JaneDoe)>>)},
        t \in {Absent, PyStr(TheGreatGatsby)},
        p \in {Absent, PyNone, PyList(<<>>), PyList(<<PyStr(Penguin), PyStr(<<"x">>)>>),
               PyStr(Penguin)},
        y \in {Absent, PyNone, Year2020},
        i \in {Absent, PyList(<<>>), PyList(<<PyStr(Isbn978)>>), PyInt(978)} }

Sources == {Crossref, GoogleBooks, SemanticScholar, OpenLibrary}

\* items that carry a 'type' of their own, as Crossref works do
JournalArticle == <<"j","o","u","r","n","a","l","-","a","r","t","i","c","l","e">>
TypedItems == { [type |-> PyStr(ty)] : ty \in {Article, Book, JournalArticle} }

RawItems(source) ==
    TypedItems \cup
    CASE source = Crossref -> CrossrefItems
      [] source = GoogleBooks -> GoogleBooksItems
      [] source = SemanticScholar -> SemanticScholarItems
      [] source = OpenLibrary -> OpenLibraryItems

ExtractInit ==
    /\ src \in Sources
    /\ arg \in RawItems(src)
    /\ ret = Pending
    /\ fpc = "ready"
    /\ Constructed
    /\ NoEnvironment

\* a call of extract_metadata(arg, src)
Extract ==
    /\ fpc = "ready"
    /\ ret' = extract_metadata(arg, src)
    /\ fpc' = "extract_metadata"
    /\ UNCHANGED <<arg, src, evars, pvars>>

ExtractNext == Extract

SpecExtract == ExtractInit /\ [][ExtractNext]_vars

----------------------------------------------------------------------------
(* format_bibtex and the text output *)

Untitled == <<"u","n","t","i","t","l","e","d">>
Zeros == <<"0","0","0","0">>

\* x.split()[i] for the first (last = FALSE) or last (last = TRUE) token
SplitToken(x, last) ==
    IF ~IsStr(x) THEN Raise("AttributeError")
    ELSE IF str_split(x.v) = <<>> THEN Raise("IndexError")
    ELSE PyStr(str_split(x.v)[IF last THEN Len(str_split(x.v)) ELSE 1])

generate_bibtex_key(entry) ==
    LET authors == Get(entry, "authors", PyList(<<>>))
        first_author_last ==
            IF Truthy(authors)
            THEN (IF IsRaise(Index0(authors)) THEN Index0(authors)
                  ELSE SplitToken(Index0(authors), TRUE))
            ELSE PyStr(Unknown)
        year == IF Truthy(Get(entry, "year", PyStr(<<>>)))
                THEN Get(entry, "year", PyStr(<<>>)) ELSE PyStr(Zeros)
        title_word == SplitToken(Get(entry, "title", PyStr(Untitled)), FALSE)
    IN  FirstRaise(<<first_author_last, title_word>>,
            PyStr(str_lower(Format(first_author_last) \o Format(year) \o Format(title_word))))

\* "  name = {value}"
bibtex_field(name, value) == <<" ", " ">> \o name \o <<" ", "=", " ", "{">> \o value \o <<"}">>

\* the field for key k of entry under the BibTeX name, when the value is non-empty
bibtex_optional(entry, k, name) ==
    IF Truthy(Get(entry, k, PyNone)) THEN <<bibtex_field(name, Format(entry[k]))>> ELSE <<>>

bibtex_fields(entry) ==
    LET authors == str_join(<<" ","a","n","d"," ">>, Texts(Get(entry, "authors", PyList(<<>>)).v))
    IN  (IF authors # <<>> THEN <<bibtex_field(<<"a","u","t","h","o","r">>, authors)>> ELSE <<>>)
        \o bibtex_optional(entry, "title", <<"t","i","t","l","e">>)
        \o bibtex_optional(entry, "year", <<"y","e","a","r">>)
        \o (IF entry["type"] = PyStr(Article)
            THEN bibtex_optional(entry, "journal", <<"j","o","u","r","n","a","l">>)
                 \o bibtex_optional(entry, "volume", <<"v","o","l","u","m","e">>)
                 \o bibtex_optional(entry, "issue", <<"n","u","m","b","e","r">>)
                 \o bibtex_optional(entry, "pages", <<"p","a","g","e","s">>)
                 \o bibtex_optional(entry, "doi", <<"d","o","i">>)
            ELSE IF entry["type"] = PyStr(Book)
            THEN bibtex_optional(entry, "publisher", <<"p","u","b","l","i","s","h","e","r">>)
                 \o bibtex_optional(entry, "isbn", <<"i","s","b","n">>)
            ELSE <<>>)

\* one "@type{key,\n fields \n}" block
bibtex_entry(entry) ==
    IF "type" \notin DOMAIN entry THEN Raise("KeyError")
    ELSE IF IsRaise(generate_bibtex_key(entry)) THEN generate_bibtex_key(entry)
    ELSE IF \/ ~IsList(Get(entry, "authors", PyList(<<>>)))
            \/ \E i \in 1..Len(Get(entry, "authors", PyList(<<>>)).v) :
                  ~IsStr(Get(entry, "authors", PyList(<<>>)).v[i])
    THEN Raise("TypeError")
    ELSE PyStr(<<"@">> \o Format(entry["type"]) \o <<"{">> \o generate_bibtex_key(entry).v
               \o <<",", "\n">> \o str_join(<<",", "\n">>, bibtex_fields(entry))
               \o <<"\n", "}">>)

\* the rendered entries joined by a blank line, or the first exception
JoinRendered(rendered) ==
    FirstRaise(rendered, PyStr(str_join(<<"\n", "\n">>, Texts(rendered))))

format_bibtex(entries) ==
    JoinRendered([i \in 1..Len(entries) |-> bibtex_entry(entries[i])])

\* '\n\n'.join([format_apa_from_metadata(md) for md in entries])
format_text(entries) ==
    JoinRendered([i \in 1..Len(entries) |-> format_apa_from_metadata(entries[i])])

----------------------------------------------------------------------------
(* format_csv and format_json *)

\* the spelling of each key of a record
KeyText ==
    [ source |-> <<"s","o","u","r","c","e">>,
      authors |-> <<"a","u","t","h","o","r","s">>,
      title |-> <<"t","i","t","l","e">>,
      journal |-> <<"j","o","u","r","n","a","l">>,
      publisher |-> <<"p","u","b","l","i","s","h","e","r">>,
      year |-> <<"y","e","a","r">>,
      volume |-> <<"v","o","l","u","m","e">>,
      issue |-> <<"i","s","s","u","e">>,
      pages |-> <<"p","a","g","e","s">>,
      doi |-> <<"d","o","i">>,
      url |-> <<"u","r","l">>,
      isbn |-> <<"i","s","b","n">>,
      type |-> <<"t","y","p","e">> ]

\* the keys in the order every adapter inserts them
KeyOrder ==
    << "source", "authors", "title", "journal", "publisher", "year", "volume", "issue", "pages", "doi", "url", "isbn", "type" >>

\* fieldnames of format_csv
fieldnames ==
    << "type", "authors", "title", "year", "journal", "volume", "issue", "pages", "doi", "publisher", "isbn", "source" >>

\* the seq without the elements failing Keep
RECURSIVE SelectKeys(_, _)
SelectKeys(order, present) ==
    IF order = <<>> THEN <<>>
    ELSE IF Head(order) \in present
    THEN <<Head(order)>> \o SelectKeys(Tail(order), present)
    ELSE SelectKeys(Tail(order), present)

RECURSIVE Concat(_)
\* the texts of parts one after the other
Concat(parts) == IF parts = <<>> THEN <<>> ELSE Head(parts) \o Concat(Tail(parts))

\* a csv cell: quoted when it holds the delimiter, a quote or a line break
csv_cell(text) ==
    IF \E i \in 1..Len(text) : text[i] \in {",", "\"", "\r", "\n"}
    THEN <<"\"">>
         \o Concat([i \in 1..Len(text) |->
                      IF text[i] = "\"" THEN <<"\"", "\"">> ELSE <<text[i]>>])
         \o <<"\"">>
    ELSE text

\* what the writer puts in a cell for a value: '' for None, str(x) otherwise
csv_text(x) == IF x.t = "none" THEN <<>> ELSE Format(x)

\* csv_authors joining with "; "
csv_authors_semicolon(entry) ==
    LET authors == Elements(Get(entry, "authors", PyList(<<>>)))
    IN  IF IsRaise(authors) THEN authors
        ELSE IF \E i \in 1..Len(authors.v) : ~IsStr(authors.v[i]) THEN Raise("TypeError")
        ELSE PyStr(str_join(<<";", " ">>, Texts(authors.v)))

\* ', '.join(entry.get('authors', []))
csv_authors(entry) ==
    LET authors == Elements(Get(entry, "authors", PyList(<<>>)))
    IN  IF IsRaise(authors) THEN authors
        ELSE IF \E i \in 1..Len(authors.v) : ~IsStr(authors.v[i]) THEN Raise("TypeError")
        ELSE PyStr(str_join(<<",", " ">>, Texts(authors.v)))

\* csv_row without the line terminator
csv_row_unterminated(cells) == str_join(<<",">>, cells)

\* one row of the writer, line terminator included
csv_row(cells) == str_join(<<",">>, cells) \o <<"\r", "\n">>

csv_entry(entry) ==
    IF IsRaise(csv_authors(entry)) THEN csv_authors(entry)
    ELSE PyStr(csv_row([i \in 1..Len(fieldnames) |->
                 IF fieldnames[i] = "authors" THEN csv_cell(csv_authors(entry).v)
                 ELSE csv_cell(csv_text(Get(entry, fieldnames[i], PyStr(<<>>))))]))

format_csv(entries) ==
    LET rows == [i \in 1..Len(entries) |-> csv_entry(entries[i])]
    IN  FirstRaise(rows,
            PyStr(csv_row([i \in 1..Len(fieldnames) |-> KeyText[fieldnames[i]]])
                  \o Concat(Texts(rows))))

\* a string as json.dumps(ensure_ascii=False) writes it
json_string(text) ==
    <<"\"">>
    \o Concat([i \in 1..Len(text) |->
                 CASE text[i] = "\"" -> <<"\\", "\"">>
                   [] text[i] = "\\" -> <<"\\", "\\">>
                   [] text[i] = "\n" -> <<"\\", "n">>
                   [] text[i] = "\r" -> <<"\\", "r">>
                   [] text[i] = "\t" -> <<"\\", "t">>
                   [] OTHER -> <<text[i]>>])
    \o <<"\"">>

\* the line break and indentation of nesting depth level (indent=2)
json_newline(level) == <<"\n">> \o [i \in 1..(2 * level) |-> " "]

RECURSIVE json_value(_, _)
\* a value at nesting depth level
json_value(x, level) ==
    CASE x.t = "str"  -> json_string(x.v)
      [] x.t = "int"  -> int_str(x.v)
      [] x.t = "none" -> <<"n","u","l","l">>
      [] x.t = "list" ->
            IF x.v = <<>> THEN <<"[", "]">>
            ELSE <<"[">> \o json_newline(level + 1)
                 \o str_join(<<",">> \o json_newline(level + 1),
                             [i \in 1..Len(x.v) |-> json_value(x.v[i], level + 1)])
                 \o json_newline(level) \o <<"]">>
      [] x.t = "dict" ->
            IF DOMAIN x.v = {} THEN <<"{", "}">>
            ELSE LET ks == SelectKeys(KeyOrder, DOMAIN x.v)
                 IN  <<"{">> \o json_newline(level + 1)
                     \o str_join(<<",">> \o json_newline(level + 1),
                                 [i \in 1..Len(ks) |->
                                    json_string(KeyText[ks[i]]) \o <<":", " ">>
                                    \o json_value(x.v[ks[i]], level + 1)])
                     \o json_newline(level) \o <<"}">>

\* json.dumps(metadata_list, indent=2, ensure_ascii=False)
format_json(entries) ==
    PyStr(json_value(PyList([i \in 1..Len(entries) |-> PyDict(entries[i])]), 0))

----------------------------------------------------------------------------
(* The record lists handed to the renderers: what the adapters return *)

MaxRecords == 2

FullCrossrefItem ==
    [author |-> PyList(<<PyDict([given |-> PyStr(Jane), family |-> PyStr(Doe)]),
                         PyDict([family |-> PyStr(Plato)])>>),
     title |-> PyList(<<PyStr(TheFutureOfAi)>>),
     issued |-> PyDict([k \in {"date-parts"} |-> PyList(<<PyList(<<Year2020>>)>>)]),
     volume |-> PyStr(<<"7">>), page |-> PyStr(Pages123)]

FullVolumeItem ==
    [volumeInfo |-> PyDict([authors |-> PyList(<<PyStr(JohnSmith)>>),
                            title |-> PyStr(TheGreatGatsby),
                            publisher |-> PyStr(Penguin),
                            publishedDate |-> PyStr(Date2020),
                            industryIdentifiers |->
                                PyList(<<PyDict([type |-> PyStr(Isbn13),
                                                 identifier |-> PyStr(Isbn978)])>>)])]

PaperUrl == <<"h","t","t","p",":","/","/","s","/","1">>

RenderItems(source) ==
    CASE source = Crossref ->
            { EmptyDict, FullCrossrefItem,
              [author |-> PyList(<<PyDict(EmptyDict)>>),
               title |-> PyList(<<PyStr(TheFutureOfAi)>>)],
              [title |-> PyList(<<PyStr(TheFutureOfAi)>>)] }
      [] source = GoogleBooks ->
            { EmptyDict, FullVolumeItem,
              [volumeInfo |-> PyDict([title |-> PyStr(TheGreatGatsby)])] }
      [] source = SemanticScholar ->
            { EmptyDict,
              [authors |-> PyList(<<PyDict([name |-> PyStr(AnnLee)])>>),
               title |-> PyStr(TheFutureOfAi), venue |-> PyStr(Nature), year |-> Year2020,
               url |-> PyStr(PaperUrl)] }
      [] source = OpenLibrary ->
            { EmptyDict,
              [author_name |-> PyList(<<PyStr(Plato)>>), title |-> PyStr(TheGreatGatsby),
               first_publish_year |-> Year2020] }

\* the records extract_metadata returns for these items
CanonicalRecords ==
    UNION { { extract_metadata(item, source).v : item \in RenderItems(source) } :
            source \in Sources }

RenderInit ==
    /\ arg \in Lists(CanonicalRecords, MaxRecords)
    /\ src = <<>>
    /\ ret = Pending
    /\ fpc = "ready"
    /\ Constructed
    /\ NoEnvironment

\* format_bibtex(arg)
FormatBibtex ==
    /\ fpc = "ready"
    /\ ret' = format_bibtex(arg)
    /\ fpc' = "format_bibtex"
    /\ UNCHANGED <<arg, src, evars, pvars>>

\* the text output: each record through format_apa_from_metadata, joined
FormatText ==
    /\ fpc = "ready"
    /\ ret' = format_text(arg)
    /\ fpc' = "format_text"
    /\ UNCHANGED <<arg, src, evars, pvars>>

\* format_json(arg)
FormatJson ==
    /\ fpc = "ready"
    /\ ret' = format_json(arg)
    /\ fpc' = "format_json"
    /\ UNCHANGED <<arg, src, evars, pvars>>

\* format_csv(arg)
FormatCsv ==
    /\ fpc = "ready"
    /\ ret' = format_csv(arg)
    /\ fpc' = "format_csv"
    /\ UNCHANGED <<arg, src, evars, pvars>>

RenderNext == FormatJson \/ FormatCsv \/ FormatBibtex \/ FormatText

SpecRender == RenderInit /\ [][RenderNext]_vars

----------------------------------------------------------------------------
(* The renderers called again and again on the list the caller keeps *)

MaxCalls == 3

\* entry_copy once format_csv has joined its authors
csv_entry_copy(entry) ==
    [k \in DOMAIN entry \cup {"authors"} |->
        IF k = "authors" THEN csv_authors(entry) ELSE entry[k]]

\* csv_entry_after writing the joined authors to the entry itself
csv_entry_after_in_place(entry) == csv_entry_copy(entry)

\* the entry of the list once format_csv has written its row: the joined
\* authors went to entry_copy, a copy of the record, so the entry is as it was
csv_entry_after(entry) == entry

\* one record of each adapter, and the Google Books record of an empty item
RerenderRecords ==
    { extract_metadata(FullCrossrefItem, Crossref).v,
      extract_metadata(FullVolumeItem, GoogleBooks).v,
      extract_metadata(EmptyDict, GoogleBooks).v }
    \cup { extract_metadata(item, SemanticScholar).v :
             item \in RenderItems(SemanticScholar) \ {EmptyDict} }
    \cup { extract_metadata(item, OpenLibrary).v :
             item \in RenderItems(OpenLibrary) \ {EmptyDict} }

RerenderInit ==
    /\ arg \in Lists(RerenderRecords, MaxRecords)
    /\ src = <<>>
    /\ ret = Pending
    /\ fpc = "ready"
    /\ Constructed
    /\ NoEnvironment

\* the call of f on the list arg, which returned out
Called(f, out) == [f |-> f, before |-> arg, out |-> out]

\* format_json(arg), which only reads the list
RenderJson ==
    /\ Len(calls) < MaxCalls
    /\ ret' = format_json(arg)
    /\ fpc' = "format_json"
    /\ calls' = Append(calls, Called("format_json", ret'))
    /\ UNCHANGED <<arg, src, cache_file, cache_dir, saved_file, clock, response, pvars>>

\* format_csv(arg), which copies each record before it writes to it
RenderCsv ==
    /\ Len(calls) < MaxCalls
    /\ ret' = format_csv(arg)
    /\ fpc' = "format_csv"
    /\ calls' = Append(calls, Called("format_csv", ret'))
    /\ arg' = [i \in 1..Len(arg) |-> csv_entry_after(arg[i])]
    /\ UNCHANGED <<src, cache_file, cache_dir, saved_file, clock, response, pvars>>

\* format_bibtex(arg), which only reads the list
RenderBibtex ==
    /\ Len(calls) < MaxCalls
    /\ ret' = format_bibtex(arg)
    /\ fpc' = "format_bibtex"
    /\ calls' = Append(calls, Called("format_bibtex", ret'))
    /\ UNCHANGED <<arg, src, cache_file, cache_dir, saved_file, clock, response, pvars>>

\* the text output of arg, which only reads the list
RenderText ==
    /\ Len(calls) < MaxCalls
    /\ ret' = format_text(arg)
    /\ fpc' = "format_text"
    /\ calls' = Append(calls, Called("format_text", ret'))
    /\ UNCHANGED <<arg, src, cache_file, cache_dir, saved_file, clock, response, pvars>>

RerenderNext == RenderJson \/ RenderCsv \/ RenderBibtex \/ RenderText

SpecRerender == RerenderInit /\ [][RerenderNext]_vars

----------------------------------------------------------------------------
(* parse_citation *)

\* the index at which sep first occurs in s, 0 if it does not
find(s, sep) ==
    LET at == { i \in 1..(Len(s) - Len(sep) + 1) : SubSeq(s, i, i + Len(sep) - 1) = sep }
    IN  IF at = {} THEN 0 ELSE CHOOSE i \in at : \A j \in at : i <= j

\* s.split(sep, 1)
split_once(s, sep) ==
    LET i == find(s, sep)
    IN  IF i = 0 THEN <<s>>
        ELSE <<SubSeq(s, 1, i - 1), SubSeq(s, i + Len(sep), Len(s))>>

RECURSIVE strip_chars(_, _)
\* s.strip(chars)
strip_chars(s, chars) ==
    IF s # <<>> /\ Head(s) \in chars THEN strip_chars(Tail(s), chars)
    ELSE IF s # <<>> /\ s[Len(s)] \in chars THEN strip_chars(SubSeq(s, 1, Len(s) - 1), chars)
    ELSE s

RECURSIVE digits_value(_)
digits_value(s) ==
    IF s = <<>> THEN 0
    ELSE 10 * digits_value(SubSeq(s, 1, Len(s) - 1)) + (Position(Digits, s[Len(s)]) - 1)

\* int(s) of a text: blanks around it and a sign before it are accepted
py_int(s) ==
    LET t == str_strip(s)
        signed == t # <<>> /\ t[1] \in {"+", "-"}
        body == IF signed THEN Tail(t) ELSE t
    IN  IF body = <<>> \/ \E i \in 1..Len(body) : ~Occurs(Digits, body[i])
        THEN Raise("ValueError")
        ELSE PyInt(IF signed /\ t[1] = "-" THEN -digits_value(body) ELSE digits_value(body))

\* author, year_str = map(str.strip, text.split(',', 1)); return author, int(year_str)
author_comma_year(text) ==
    LET parts == split_once(text, <<",">>)
        year == py_int(str_strip(parts[2]))
    IN  IF IsRaise(year) THEN year
        ELSE PyList(<<PyStr(str_strip(parts[1])), year>>)

\* 'name (year)', '(name, year)' or 'name, year' to the pair (author, year)
parse_citation(text) ==
    LET citation == str_strip(text)
    IN  IF Occurs(citation, "(") /\ Occurs(citation, ")")
        THEN IF citation[1] = "("
             THEN LET content == strip_chars(citation, {"(", ")"})
                  IN  IF Occurs(content, ",") THEN author_comma_year(content)
                      ELSE Raise("ValueError")
             ELSE LET parts == split_once(citation, <<" ", "(">>)
                      year == IF Len(parts) = 2 THEN py_int(strip_chars(parts[2], {")"}))
                              ELSE Raise("ValueError")
                  IN  IF IsRaise(year) THEN Raise("ValueError")
                      ELSE PyList(<<PyStr(str_strip(parts[1])), year>>)
        ELSE IF Occurs(citation, ",") THEN author_comma_year(citation)
        ELSE Raise("ValueError")

----------------------------------------------------------------------------
(* SearchWorker.run and the slots of ReferenceManagerApp *)

MaxItems == 2
MaxSearches == 1

\* the lists over S of at most n items, no item twice
DistinctLists(S, n) ==
    { l \in Lists(S, n) : \A i, j \in 1..Len(l) : i # j => l[i] # l[j] }

\* what the user can have typed in the citation and keyword fields
Citations ==
    { <<>>,
      <<"D","o","e"," ","(","2","0","2","0",")">>,
      <<"(","D","o","e",","," ","2","0","2","0",")">>,
      <<" ","D","o","e",",","2","0","2","0">>,
      <<"D","o","e">>,
      <<"D","o","e"," ","(","n",".","d",".",")">> }

Keywords == { <<" ","a","i">> }

\* an Open Library document with an empty title
UntitledDoc ==
    [author_name |-> PyList(<<PyStr(Plato)>>), title |-> PyStr(<<>>),
     first_publish_year |-> Year2020]

\* a Semantic Scholar paper whose journal is null
NullJournalPaper ==
    [title |-> PyStr(TheFutureOfAi), year |-> Year2020, journal |-> PyNone]

\* the items a provider can answer with
ProviderItems(source) ==
    CASE source = Crossref -> { FullCrossrefItem, EmptyDict }
      [] source = GoogleBooks -> { FullVolumeItem }
      [] source = SemanticScholar -> { NullJournalPaper }
      [] source = OpenLibrary -> { UntitledDoc }

\* what a search_* call comes back with: a list of items (from the cache,
\* from the provider, or the empty list after a RequestException), or an
\* exception other than RequestException raised on the way
SearchReturns(source) ==
    { PyList(l) : l \in DistinctLists(ProviderItems(source), MaxItems) }
    \cup { Raise(IF source = Crossref THEN "KeyError" ELSE "AttributeError") }

Progress(message) == [sig |-> "progress", payload |-> message]
Finished(list) == [sig |-> "finished", payload |-> list]
Error(message) == [sig |-> "error", payload |-> message]

\* [(item, source) for item in found]
tagged(found, source) == [i \in 1..Len(found) |-> <<found[i], source>>]

\* list.extend(more) putting the new entries in front
extend_front(list, more) == more \o list

\* list.extend(more)
extend(list, more) == list \o more

\* the click on Search with the file field empty: a blank or unparsable
\* citation only shows a warning; at most MaxSearches searches are started
PerformSearch ==
    /\ app = "running"
    /\ search_button
    /\ searches < MaxSearches
    /\ \E citation_input \in Citations, keyword_input \in Keywords :
         LET citation == str_strip(citation_input)
             parsed == parse_citation(citation)
         IN  IF citation = <<>> \/ IsRaise(parsed)
             THEN UNCHANGED pvars
             ELSE /\ search_button' = FALSE
                  /\ status_label' = <<"Searching...">>
                  /\ results_text' = <<>>
                  /\ search_worker' = [author |-> parsed.v[1].v, year |-> parsed.v[2].v,
                                       keyword |-> str_strip(keyword_input),
                                       use_cache |-> use_cache_checkbox]
                  /\ worker_pc' = "crossref"
                  /\ searches' = searches + 1
                  /\ results' = <<>>
                  /\ crossref_results' = <<>>
                  /\ google_results' = <<>>
                  /\ semantic_results' = <<>>
                  /\ open_library_results' = <<>>
                  /\ UNCHANGED <<save_button, append_button, format_combo, results_list,
                                 search_results, metadata_list, app, signals>>
    /\ UNCHANGED fvars

\* the except branch of run()
WorkerFails(message, e) ==
    /\ signals' = signals \o <<Progress(message), Error(e)>>
    /\ worker_pc' = "done"
    /\ UNCHANGED <<results, crossref_results, google_results, semantic_results,
                   open_library_results>>

SearchCrossref ==
    /\ worker_pc = "crossref"
    /\ \E found \in SearchReturns(Crossref) :
         IF IsRaise(found) THEN WorkerFails("Searching Crossref...", found.v)
         ELSE /\ signals' = Append(signals, Progress("Searching Crossref..."))
              /\ crossref_results' = found.v
              /\ results' = extend(results, tagged(found.v, Crossref))
              /\ worker_pc' = "google_books"
              /\ UNCHANGED <<google_results, semantic_results, open_library_results>>
    /\ UNCHANGED <<search_worker, gvars, fvars>>

SearchGoogleBooks ==
    /\ worker_pc = "google_books"
    /\ \E found \in SearchReturns(GoogleBooks) :
         IF IsRaise(found) THEN WorkerFails("Searching Google Books...", found.v)
         ELSE /\ signals' = Append(signals, Progress("Searching Google Books..."))
              /\ google_results' = found.v
              /\ results' = extend(results, tagged(found.v, GoogleBooks))
              /\ worker_pc' = "semantic_scholar"
              /\ UNCHANGED <<crossref_results, semantic_results, open_library_results>>
    /\ UNCHANGED <<search_worker, gvars, fvars>>

SearchSemanticScholar ==
    /\ worker_pc = "semantic_scholar"
    /\ \E found \in SearchReturns(SemanticScholar) :
         IF IsRaise(found) THEN WorkerFails("Searching Semantic Scholar...", found.v)
         ELSE /\ signals' = Append(signals, Progress("Searching Semantic Scholar..."))
              /\ semantic_results' = found.v
              /\ results' = extend(results, tagged(found.v, SemanticScholar))
              /\ worker_pc' = "open_library"
              /\ UNCHANGED <<crossref_results, google_results, open_library_results>>
    /\ UNCHANGED <<search_worker, gvars, fvars>>

SearchOpenLibrary ==
    /\ worker_pc = "open_library"
    /\ \E found \in SearchReturns(OpenLibrary) :
         IF IsRaise(found) THEN WorkerFails("Searching Open Library...", found.v)
         ELSE /\ signals' = Append(signals, Progress("Searching Open Library..."))
              /\ open_library_results' = found.v
              /\ results' = extend(results, tagged(found.v, OpenLibrary))
              /\ worker_pc' = "emit"
              /\ UNCHANGED <<crossref_results, google_results, semantic_results>>
    /\ UNCHANGED <<search_worker, gvars, fvars>>

\* self.finished.emit(results)
EmitFinished ==
    /\ worker_pc = "emit"
    /\ signals' = Append(signals, Finished(results))
    /\ worker_pc' = "done"
    /\ UNCHANGED <<search_worker, results, crossref_results, google_results,
                   semantic_results, open_library_results, gvars, fvars>>

\* the slot of the progress signal
UpdateProgress ==
    /\ app = "running"
    /\ signals # <<>> /\ Head(signals).sig = "progress"
    /\ status_label' = <<Head(signals).payload>>
    /\ signals' = Tail(signals)
    /\ UNCHANGED <<search_button, save_button, append_button, format_combo, results_text,
                   results_list, search_results, metadata_list, app, searches, wvars, fvars>>

\* the slot of the error signal
HandleError ==
    /\ app = "running"
    /\ signals # <<>> /\ Head(signals).sig = "error"
    /\ status_label' = <<"Error occurred">>
    /\ search_button' = TRUE
    /\ signals' = Tail(signals)
    /\ UNCHANGED <<save_button, append_button, format_combo, results_text, results_list,
                   search_results, metadata_list, app, searches, wvars, fvars>>

NoReferencesFound ==
    <<"N","o"," ","r","e","f","e","r","e","n","c","e","s"," ","f","o","u","n","d"," ","m","a","t","c","h","i","n","g"," ","y","o","u","r"," ","q","u","e","r","y",".","\n",
      "T","r","y"," ","a","d","j","u","s","t","i","n","g"," ","y","o","u","r"," ","s","e","a","r","c","h"," ","t","e","r","m","s"," ","o","r"," ","e","x","p","a","n","d","i","n","g"," ","t","h","e"," ","y","e","a","r"," ","r","a","n","g","e",".">>

\* [find_ref.extract_metadata(item, source) for item, source in results]
extract_all(list) ==
    LET extracted == [i \in 1..Len(list) |-> extract_metadata(list[i][1], list[i][2])]
    IN  FirstRaise(extracted, PyList([i \in 1..Len(list) |-> extracted[i].v]))

\* the output display_formatted_results computes for a format
formatted(format_type, list) ==
    CASE format_type = "JSON" -> format_json(list)
      [] format_type = "CSV" -> format_csv(list)
      [] format_type = "BibTeX" -> format_bibtex(list)
      [] OTHER -> format_text(list)

\* the slot of the finished signal, display_formatted_results included; an
\* exception that escapes the slot ends the application (PyQt6 aborts on an
\* unhandled exception in a slot), leaving every later statement undone
ProcessResults ==
    /\ app = "running"
    /\ signals # <<>> /\ Head(signals).sig = "finished"
    /\ signals' = Tail(signals)
    /\ search_results' = Head(signals).payload
    /\ LET extracted == extract_all(Head(signals).payload)
           output == formatted(format_combo, extracted.v)
       IN  IF IsRaise(extracted)
           THEN /\ app' = "aborted"
                /\ UNCHANGED <<search_button, save_button, append_button, status_label,
                               results_text, results_list, metadata_list>>
           ELSE /\ metadata_list' = extracted.v
                /\ IF extracted.v = <<>>
                   THEN /\ results_text' = NoReferencesFound
                        /\ status_label' = <<"No results found">>
                        /\ save_button' = FALSE
                        /\ append_button' = FALSE
                        /\ search_button' = TRUE
                        /\ UNCHANGED <<results_list, app>>
                   ELSE IF IsRaise(output)
                   THEN /\ results_text' = <<>>
                        /\ results_list' = <<>>
                        /\ app' = "aborted"
                        /\ UNCHANGED <<search_button, save_button, append_button,
                                       status_label>>
                   ELSE /\ results_text' = output.v
                        /\ results_list' =
                              IF format_combo \in {"JSON", "CSV", "BibTeX"} THEN <<>>
                              ELSE [i \in 1..Len(extracted.v) |->
                                      format_apa_from_metadata(extracted.v[i]).v]
                        /\ status_label' = <<"Found", Len(extracted.v), "references">>
                        /\ save_button' = TRUE
                        /\ append_button' = TRUE
                        /\ search_button' = TRUE
                        /\ UNCHANGED app
    /\ UNCHANGED <<format_combo, searches, wvars, fvars>>

\* the user picks another output format; no slot is connected to the selector
ChangeFormat ==
    /\ app = "running"
    /\ \E format_type \in Formats \ {format_combo} : format_combo' = format_type
    /\ UNCHANGED <<search_button, save_button, append_button, status_label, results_text,
                   results_list, search_results, metadata_list, app, searches, wvars, signals, fvars>>

Init ==
    /\ arg = <<>>
    /\ src = <<>>
    /\ ret = Pending
    /\ fpc = "idle"
    /\ Constructed
    /\ NoEnvironment

Next ==
    \/ PerformSearch
    \/ SearchCrossref
    \/ SearchGoogleBooks
    \/ SearchSemanticScholar
    \/ SearchOpenLibrary
    \/ EmitFinished
    \/ UpdateProgress
    \/ ProcessResults
    \/ HandleError
    \/ ChangeFormat

Spec == Init /\ [][Next]_vars

----------------------------------------------------------------------------
(* save_results: the Save and Append buttons *)

MaxSaves == 1

\* the extension save_results takes from the format selector
default_ext(format_type) ==
    CASE format_type = "JSON" -> ".json"
      [] format_type = "CSV" -> ".csv"
      [] format_type = "BibTeX" -> ".bib"
      [] OTHER -> ".txt"

\* what the file dialog answers, a path being a name and its extensions:
\* nothing (cancelled), the path proposed, a name without an extension, a
\* name with the extension of a text file
SavePaths(ext) ==
    { <<>>, <<"references", ext>>, <<"notes">>, <<"notes", ".txt">> }

\* file_path, with default_ext put after a path that does not end with it
with_extension(path, ext) ==
    IF path[Len(path)] = ext THEN path ELSE Append(path, ext)

\* what the file at the path holds before the save
Unreadable == [t |-> "unreadable"]
Holding(text) == [t |-> "text", v |-> text]
ExistingFiles ==
    { NoFile, Unreadable, Holding(<<>>), Holding(<<"x">>), Holding(<<"x", "\n", "\n">>) }

\* existing_content.endswith('\n\n')
ends_blank_line(text) ==
    Len(text) >= 2 /\ text[Len(text)] = "\n" /\ text[Len(text) - 1] = "\n"

\* the text written to the file: the output, after the existing content and
\* a blank line when appending to a file that has content
file_text(append, existing, output) ==
    IF append /\ existing.t = "text" /\ existing.v # <<>>
    THEN existing.v \o (IF ends_blank_line(existing.v) THEN <<>> ELSE <<"\n", "\n">>)
                    \o output
    ELSE output

\* the tabs of the results view and the item selected in the list view
TextView == 0
ListView == 1

\* save_results(append): with records to save, the selected item of the list
\* view or the text of the text view is written under the path the dialog
\* gives, the extension taken from the format selector; the text view holds
\* what the last setText or clear left in it, the user having edited nothing
save_results(append) ==
    /\ app = "running"
    /\ Len(calls) < MaxSaves
    /\ \E currentIndex \in {TextView, ListView}, currentRow \in 0..Len(results_list),
          existing \in ExistingFiles, writable \in BOOLEAN :
          \E dialog \in SavePaths(default_ext(format_combo)) :
            LET output == IF currentIndex = ListView THEN results_list[currentRow]
                          ELSE results_text
                ext == default_ext(format_combo)
                file_path == with_extension(dialog, ext)
                call == [f |-> "save_results",
                         before |-> [currentIndex |-> currentIndex, append |-> append,
                                     format_type |-> format_combo,
                                     metadata_list |-> metadata_list],
                         out |-> IF writable
                                 THEN [t |-> "written", file_path |-> file_path,
                                       output |-> output]
                                 ELSE NoFile]
            IN  /\ metadata_list # <<>>
                /\ currentIndex = ListView => currentRow # 0
                /\ currentIndex = TextView => currentRow = 0
                /\ dialog # <<>>
                /\ calls' = Append(calls, call)
                /\ IF writable
                   THEN /\ saved_file' = [file_path |-> file_path,
                                          text |-> file_text(append, existing, output)]
                        /\ status_label' =
                              <<"Results", IF append /\ existing.t # "unreadable"
                                           THEN "appended to" ELSE "saved to", file_path>>
                   ELSE UNCHANGED <<saved_file, status_label>>
    /\ UNCHANGED <<arg, src, ret, fpc, cache_file, cache_dir, clock, response>>
    /\ UNCHANGED <<search_button, save_button, append_button, format_combo, results_text,
                   results_list, search_results, metadata_list, app, searches, wvars,
                   signals>>

\* the clicks on the two buttons, which a disabled button does not take
SaveClicked == save_button /\ save_results(FALSE)
AppendClicked == append_button /\ save_results(TRUE)

SaveNext == Next \/ SaveClicked \/ AppendClicked

SpecSave == Init /\ [][SaveNext]_vars

\* the worker thread keeps running until run() returns, and the event loop
\* of the main thread delivers every queued signal to its slot; the user's
\* clicks are under no such obligation
WorkerRuns ==
    \/ SearchCrossref
    \/ SearchGoogleBooks
    \/ SearchSemanticScholar
    \/ SearchOpenLibrary
    \/ EmitFinished

EventLoop == UpdateProgress \/ ProcessResults \/ HandleError

\* a signal waits for its slot: the states in which a step of EventLoop is
\* possible, each of the three signals having one slot guarded by nothing else
QueueWaiting == app = "running" /\ signals # <<>>

\* weak fairness of EventLoop, written out with QueueWaiting in the place
\* of ENABLED <<EventLoop>>_vars
EventLoopFair == []<>(~QueueWaiting) \/ []<><<EventLoop>>_vars

FairSpec == Spec /\ WF_vars(WorkerRuns) /\ EventLoopFair

----------------------------------------------------------------------------
(* The query cache: get_cached_results and cache_results *)

\* timedelta(days=1), in hours, the unit of the clock
OneDay == 24

\* the content of the cache file of a query: no file, a file json.load cannot
\* decode, or the value json.load returns
NotJson == [t |-> "not_json"]
Json(value) == [t |-> "json", v |-> value]

\* datetime.isoformat() and datetime.fromisoformat(): the time as text and
\* back; the text of a time is the digits of its hours
isoformat(time) == PyStr(int_str(time))
fromisoformat(x) ==
    IF ~IsStr(x) THEN Raise("TypeError")
    ELSE IF x.v = <<>> \/ \E i \in 1..Len(x.v) : ~Occurs(Digits, x.v[i])
    THEN Raise("ValueError")
    ELSE PyInt(digits_value(x.v))

\* x[k], k a str: the value of a dict's key, KeyError without the key,
\* TypeError on anything but a dict
Subscript(x, k) ==
    IF ~IsDict(x) THEN Raise("TypeError")
    ELSE IF k \in DOMAIN x.v THEN x.v[k]
    ELSE Raise("KeyError")

IsKeyError(x) == IsRaise(x) /\ x.v = "KeyError"

\* the results of a fresh entry, None when there is no usable entry; only
\* JSONDecodeError and KeyError are caught
get_cached_results(file, now) ==
    IF file.t = "missing" THEN PyNone
    ELSE IF file.t = "not_json" THEN PyNone
    ELSE LET timestamp == Subscript(file.v, "timestamp")
             cache_time == fromisoformat(timestamp)
             cached == Subscript(file.v, "results")
         IN  IF IsKeyError(timestamp) THEN PyNone
             ELSE IF IsRaise(timestamp) THEN timestamp
             ELSE IF IsRaise(cache_time) THEN cache_time
             ELSE IF now - cache_time.v < OneDay
             THEN (IF IsKeyError(cached) THEN PyNone ELSE cached)
             ELSE PyNone

\* the file cache_results writes
cache_results(now, found) ==
    Json(PyDict([timestamp |-> isoformat(now), results |-> found]))

----------------------------------------------------------------------------
(* The provider searches: search_crossref, search_google_books,            *)
(* search_semantic_scholar, search_open_library                            *)

\* what requests.get and the response do: the request fails, the status is
\* an error, the body is not JSON (response.json() then raises the
\* RequestException of a recent requests or the ValueError of an older one),
\* or the body is JSON
Transport == [t |-> "transport"]
ErrorStatus == [t |-> "status"]
NotJsonBody(raised) == [t |-> "not_json", raised |-> raised]
JsonBody(value) == [t |-> "json", v |-> value]

\* the try block ended in except requests.exceptions.RequestException
Caught == [t |-> "caught"]

\* requests.get, raise_for_status and response.json(), before the items are read
response_json(reply) ==
    CASE reply.t = "transport" -> Caught
      [] reply.t = "status" -> Caught
      [] reply.t = "not_json" ->
            IF reply.raised = "RequestException" THEN Caught ELSE Raise("ValueError")
      [] reply.t = "json" -> reply.v

\* [item for item in items if keep(item)], keep a Python value or an exception
Filtered(items, keep(_)) ==
    LET elements == Elements(items)
    IN  IF IsRaise(elements) THEN elements
        ELSE LET kept == [i \in 1..Len(elements.v) |-> keep(elements.v[i])]
             IN  FirstRaise(kept,
                    PyList(SelectSeq(elements.v, LAMBDA item : Truthy(keep(item)))))

PyBool(b) == IF b THEN PyInt(1) ELSE PyInt(0)

\* year-1 <= value <= year+1 for a truthy value of the item's key
year_in_range(item, k, year) ==
    LET value == ValueGet(item, k, PyNone)
    IN  IF IsRaise(value) THEN value
        ELSE IF ~Truthy(value) THEN PyBool(FALSE)
        ELSE IF value.t # "int" THEN Raise("TypeError")
        ELSE PyBool(year - 1 <= value.v /\ value.v <= year + 1)

\* str(year) in item.get("volumeInfo", {}).get("publishedDate", "")
published_in(item, year) ==
    LET info == ValueGet(item, "volumeInfo", PyDict(EmptyDict))
        pub_date == IF IsRaise(info) THEN info ELSE ValueGet(info, "publishedDate", PyStr(<<>>))
    IN  IF IsRaise(pub_date) THEN pub_date
        ELSE IF IsStr(pub_date) THEN PyBool(find(pub_date.v, int_str(year)) # 0)
        ELSE IF IsList(pub_date)
        THEN PyBool(\E i \in 1..Len(pub_date.v) : pub_date.v[i] = PyStr(int_str(year)))
        ELSE IF IsDict(pub_date) THEN PyBool(FALSE)
        ELSE Raise("TypeError")

\* the items each search takes from the reply
crossref_found(reply) ==
    LET body == response_json(reply)
        message == Subscript(body, "message")
    IN  IF body = Caught \/ IsRaise(body) THEN body
        ELSE IF IsRaise(message) THEN message
        ELSE Subscript(message, "items")

google_books_found(reply, year) ==
    LET body == response_json(reply)
        items == ValueGet(body, "items", PyList(<<>>))
    IN  IF body = Caught \/ IsRaise(body) THEN body
        ELSE IF IsRaise(items) THEN items
        ELSE Filtered(items, LAMBDA item : published_in(item, year))

semantic_scholar_found(reply, year) ==
    LET body == response_json(reply)
        items == ValueGet(body, "data", PyList(<<>>))
    IN  IF body = Caught \/ IsRaise(body) THEN body
        ELSE IF IsRaise(items) THEN items
        ELSE Filtered(items, LAMBDA item : year_in_range(item, "year", year))

open_library_found(reply, year) ==
    LET body == response_json(reply)
        docs == ValueGet(body, "docs", PyList(<<>>))
    IN  IF body = Caught \/ IsRaise(body) THEN body
        ELSE IF IsRaise(docs) THEN docs
        ELSE Filtered(docs, LAMBDA item : year_in_range(item, "first_publish_year", year))

\* the body common to the four searches: the cached results when the cache
\* is used and has them, otherwise the items found, which are cached; what
\* the search returns and the cache file it leaves
cache_or_fetch(use_cache, file, now, found) ==
    LET cached_results == IF use_cache THEN get_cached_results(file, now) ELSE PyNone
    IN  IF cached_results.t # "none" THEN [ret |-> cached_results, file |-> file]
        ELSE IF found = Caught THEN [ret |-> PyList(<<>>), file |-> file]
        ELSE IF IsRaise(found) THEN [ret |-> found, file |-> file]
        ELSE [ret |-> found, file |-> cache_results(now, found)]

search_crossref(year, use_cache, file, now, reply) ==
    cache_or_fetch(use_cache, file, now, crossref_found(reply))

search_google_books(year, use_cache, file, now, reply) ==
    cache_or_fetch(use_cache, file, now, google_books_found(reply, year))

search_semantic_scholar(year, use_cache, file, now, reply) ==
    cache_or_fetch(use_cache, file, now, semantic_scholar_found(reply, year))

search_open_library(year, use_cache, file, now, reply) ==
    cache_or_fetch(use_cache, file, now, open_library_found(reply, year))

----------------------------------------------------------------------------
(* The cache files, clocks and replies a search can meet *)

\* the hour of the call, late enough for an entry older than a day
Now == OneDay + OneDay

\* the ages of an entry around the limit of a day, and an entry written under
\* a clock ahead of this one
Ages == {0, OneDay - 1, OneDay, OneDay + 1, -1}

CachedItem == [title |-> PyList(<<PyStr(TheGreatGatsby)>>)]

\* an entry as cache_results writes it
Entry(time, found) == Json(PyDict([timestamp |-> isoformat(time), results |-> found]))

CacheFiles ==
    { NoFile, NotJson, Json(PyList(<<>>)), Json(PyNone), Json(PyDict(EmptyDict)) }
    \cup { Entry(Now - age, found) :
             age \in Ages, found \in {PyList(<<>>), PyList(<<PyDict(CachedItem)>>)} }
    \cup { Json(PyDict([timestamp |-> isoformat(Now - age)])) : age \in {0, OneDay} }
    \cup { Json(PyDict([timestamp |-> isoformat(Now), results |-> PyNone])) }
    \cup { Json(PyDict([timestamp |-> ts, results |-> PyList(<<PyDict(CachedItem)>>)])) :
             ts \in {PyStr(<<"x">>), PyStr(<<>>), PyNone, PyInt(Now)} }

\* a paper and a doc of another year, which the year filters drop
OldPaper == [title |-> PyStr(TheFutureOfAi), year |-> PyInt(1999)]
OldDoc == [title |-> PyStr(TheGreatGatsby), first_publish_year |-> PyInt(1999)]
UndatedVolume == [volumeInfo |-> PyDict([title |-> PyStr(TheGreatGatsby)])]

\* the JSON bodies a provider can answer with: the expected structure, with
\* and without items, and structures that are not the expected one
Bodies(source) ==
    { PyDict(EmptyDict), PyList(<<>>), PyNone }
    \cup
    CASE source = Crossref ->
            { PyDict([message |-> PyDict([items |-> PyList(l)])]) :
                l \in {<<>>, <<PyDict(FullCrossrefItem)>>,
                       <<PyDict(FullCrossrefItem), PyDict(EmptyDict)>>} }
            \cup { PyDict([message |-> m]) :
                     m \in {PyDict(EmptyDict), PyNone, PyList(<<>>)} }
      [] source = GoogleBooks ->
            { PyDict([items |-> l]) :
                l \in {PyList(<<>>), PyList(<<PyDict(FullVolumeItem)>>),
                       PyList(<<PyDict(UndatedVolume), PyDict(FullVolumeItem)>>),
                       PyList(<<PyNone>>), PyNone} }
      [] source = SemanticScholar ->
            { PyDict([data |-> l]) :
                l \in {PyList(<<>>), PyList(<<PyDict(NullJournalPaper)>>),
                       PyList(<<PyDict(OldPaper), PyDict(NullJournalPaper)>>),
                       PyList(<<PyDict([year |-> PyStr(<<"2","0","2","0">>)])>>), PyNone} }
      [] source = OpenLibrary ->
            { PyDict([docs |-> l]) :
                l \in {PyList(<<>>), PyList(<<PyDict(UntitledDoc)>>),
                       PyList(<<PyDict(OldDoc), PyDict(UntitledDoc)>>),
                       PyList(<<PyStr(<<"x">>)>>), PyNone} }

Replies(source) ==
    { Transport, ErrorStatus, NotJsonBody("RequestException"), NotJsonBody("ValueError") }
    \cup { JsonBody(body) : body \in Bodies(source) }

\* the year searched for and the cache checkbox
SearchArguments == { [year |-> Year2020.v, use_cache |-> u] : u \in BOOLEAN }

SearchInit ==
    /\ src \in Sources
    /\ arg \in SearchArguments
    /\ cache_file \in CacheFiles
    /\ cache_dir = NoDir
    /\ saved_file = NoFile
    /\ clock = Now
    /\ response \in Replies(src)
    /\ calls = <<>>
    /\ ret = Pending
    /\ fpc = "ready"
    /\ Constructed

\* the call of a search, which returns done.ret and leaves the file done.file
Searched(f, done) ==
    /\ ret' = done.ret
    /\ cache_file' = done.file
    /\ calls' = Append(calls, [f |-> f, before |-> cache_file, out |-> done.ret])
    /\ fpc' = f
    /\ UNCHANGED <<arg, src, cache_dir, saved_file, clock, response, pvars>>

CrossrefSearch ==
    /\ fpc = "ready" /\ src = Crossref
    /\ Searched("search_crossref",
                search_crossref(arg.year, arg.use_cache, cache_file, clock, response))

GoogleBooksSearch ==
    /\ fpc = "ready" /\ src = GoogleBooks
    /\ Searched("search_google_books",
                search_google_books(arg.year, arg.use_cache, cache_file, clock, response))

SemanticScholarSearch ==
    /\ fpc = "ready" /\ src = SemanticScholar
    /\ Searched("search_semantic_scholar",
                search_semantic_scholar(arg.year, arg.use_cache, cache_file, clock, response))

OpenLibrarySearch ==
    /\ fpc = "ready" /\ src = OpenLibrary
    /\ Searched("search_open_library",
                search_open_library(arg.year, arg.use_cache, cache_file, clock, response))

SearchNext == CrossrefSearch \/ GoogleBooksSearch \/ SemanticScholarSearch \/ OpenLibrarySearch

SpecSearch == SearchInit /\ [][SearchNext]_vars

----------------------------------------------------------------------------
(* The cache key: generate_query_hash and the cache directory *)

\* f"{author}|{year}|{keyword}|{source}", author and keyword str, year int
query_string(author, year, keyword, source) ==
    author \o <<"|">> \o int_str(year) \o <<"|">> \o keyword \o <<"|">> \o source

\* hashlib.md5(text.encode()).hexdigest(), taken to be collision-free: the
\* digest of a text stands for that text and for no other
md5_hexdigest(text) == [md5 |-> text]

generate_query_hash(author, year, keyword, source) ==
    md5_hexdigest(query_string(author, year, keyword, source))

\* the file <query_hash>.json of the cache directory, and the directory
\* after a search has left that file as it is or written it
cache_path(dir, query_hash) ==
    IF query_hash \in DOMAIN dir THEN dir[query_hash] ELSE NoFile

written(dir, query_hash, file) ==
    IF file.t = "missing" THEN dir
    ELSE [h \in DOMAIN dir \cup {query_hash} |-> IF h = query_hash THEN file ELSE dir[h]]

MaxQueryLen == 2

\* the queries: an author and a keyword that can hold the separator and the
\* digits of a year
QueryAuthors == { <<"D">> \o rest : rest \in Strs({"|", "1"}, MaxQueryLen) }
QueryKeywords == Strs({"|", "2"}, MaxQueryLen)
QueryYears == {1, 2}
Queries ==
    { [author |-> a, year |-> y, keyword |-> k, source |-> s] :
        a \in QueryAuthors, y \in QueryYears, k \in QueryKeywords, s \in Sources }

\* what the provider answers to a query: one item that names the query and
\* carries the year where the provider's year filter looks for it
Answer(query) ==
    LET item == [author |-> PyStr(query.author), keyword |-> PyStr(query.keyword),
                 source |-> PyStr(query.source),
                 year |-> PyInt(query.year), first_publish_year |-> PyInt(query.year),
                 volumeInfo |-> PyDict([publishedDate |-> PyStr(int_str(query.year))])]
        items == PyList(<<PyDict(item)>>)
    IN  JsonBody(CASE query.source = Crossref ->
                        PyDict([message |-> PyDict([items |-> items])])
                   [] query.source = GoogleBooks -> PyDict([items |-> items])
                   [] query.source = SemanticScholar -> PyDict([data |-> items])
                   [] query.source = OpenLibrary -> PyDict([docs |-> items]))

QueryInit ==
    /\ arg = <<>>
    /\ src = <<>>
    /\ calls = <<>>
    /\ cache_file = NoFile
    /\ cache_dir = NoDir
    /\ saved_file = NoFile
    /\ clock = Now
    /\ response = PyNone
    /\ ret = Pending
    /\ fpc = "ready"
    /\ Constructed

\* the call of a search for a query, the second call at the latest: it
\* reads and writes the file of the query's hash
Queried(f, query, query_hash, done) ==
    /\ ret' = done.ret
    /\ cache_dir' = written(cache_dir, query_hash, done.file)
    /\ calls' = Append(calls, [f |-> f, before |-> query, out |-> done.ret])
    /\ arg' = query
    /\ src' = query.source
    /\ response' = Answer(query)
    /\ fpc' = f
    /\ UNCHANGED <<cache_file, saved_file, clock, pvars>>

CrossrefQuery ==
    /\ Len(calls) <= 1
    /\ \E query \in Queries, use_cache \in BOOLEAN :
         /\ query.source = Crossref
         /\ LET query_hash == generate_query_hash(query.author, query.year,
                                                  query.keyword, Crossref)
            IN  Queried("search_crossref", query, query_hash,
                        search_crossref(query.year, use_cache,
                                        cache_path(cache_dir, query_hash), clock,
                                        Answer(query)))

GoogleBooksQuery ==
    /\ Len(calls) <= 1
    /\ \E query \in Queries, use_cache \in BOOLEAN :
         /\ query.source = GoogleBooks
         /\ LET query_hash == generate_query_hash(query.author, query.year,
                                                  query.keyword, GoogleBooks)
            IN  Queried("search_google_books", query, query_hash,
                        search_google_books(query.year, use_cache,
                                            cache_path(cache_dir, query_hash), clock,
                                            Answer(query)))

SemanticScholarQuery ==
    /\ Len(calls) <= 1
    /\ \E query \in Queries, use_cache \in BOOLEAN :
         /\ query.source = SemanticScholar
         /\ LET query_hash == generate_query_hash(query.author, query.year,
                                                  query.keyword, SemanticScholar)
            IN  Queried("search_semantic_scholar", query, query_hash,
                        search_semantic_scholar(query.year, use_cache,
                                                cache_path(cache_dir, query_hash), clock,
                                                Answer(query)))

OpenLibraryQuery ==
    /\ Len(calls) <= 1
    /\ \E query \in Queries, use_cache \in BOOLEAN :
         /\ query.source = OpenLibrary
         /\ LET query_hash == generate_query_hash(query.author, query.year,
                                                  query.keyword, OpenLibrary)
            IN  Queried("search_open_library", query, query_hash,
                        search_open_library(query.year, use_cache,
                                            cache_path(cache_dir, query_hash), clock,
                                            Answer(query)))

QueryNext == CrossrefQuery \/ GoogleBooksQuery \/ SemanticScholarQuery \/ OpenLibraryQuery

SpecQuery == QueryInit /\ [][QueryNext]_vars

----------------------------------------------------------------------------
(* Claims about the aggregation of the providers' results, checked under Spec *)

\* list holds, in this order, the items of the four result lists, each
\* paired with the tag of its provider, and nothing else
InProviderOrder(list, first, second, third, fourth) ==
    LET n1 == Len(first)
        n2 == Len(second)
        n3 == Len(third)
        n4 == Len(fourth)
    IN  /\ Len(list) = n1 + n2 + n3 + n4
        /\ \A i \in 1..n1 : list[i] = <<first[i], Crossref>>
        /\ \A i \in 1..n2 : list[n1 + i] = <<second[i], GoogleBooks>>
        /\ \A i \in 1..n3 : list[n1 + n2 + i] = <<third[i], SemanticScholar>>
        /\ \A i \in 1..n4 : list[n1 + n2 + n3 + i] = <<fourth[i], OpenLibrary>>

Aggregated(list) ==
    InProviderOrder(list, crossref_results, google_results, semantic_results,
                    open_library_results)

\* the worker's finished signal has been handled by process_results
SearchDelivered ==
    /\ worker_pc = "done"
    /\ signals = <<>>
    /\ status_label # <<"Error occurred">>

\* C1: for every search the aggregated sequence is the concatenation of the
\* four providers' result lists in the order Crossref, Google Books, Semantic
\* Scholar, Open Library, each list in the order the provider returned it,
\* nothing dropped, duplicated, merged or re-sorted, each entry tagged with
\* its provider; the records shown are the adapters' records in that order.
C1_AggregationOrder ==
    /\ worker_pc = "emit" => Aggregated(results)
    /\ \A k \in 1..Len(signals) :
          signals[k].sig = "finished" => Aggregated(signals[k].payload)
    /\ SearchDelivered => Aggregated(search_results)
    /\ (SearchDelivered /\ app = "running") =>
          /\ Len(metadata_list) = Len(search_results)
          /\ \A i \in 1..Len(metadata_list) :
                PyDict(metadata_list[i]) =
                    extract_metadata(search_results[i][1], search_results[i][2])

C1_Witness ==
    /\ SearchDelivered
    /\ app = "running"
    /\ crossref_results = <<FullCrossrefItem, EmptyDict>>
    /\ google_results = <<FullVolumeItem>>
    /\ semantic_results = <<>>
    /\ open_library_results = <<UntitledDoc>>
    /\ search_results = << <<FullCrossrefItem, Crossref>>, <<EmptyDict, Crossref>>,
                           <<FullVolumeItem, GoogleBooks>>, <<UntitledDoc, OpenLibrary>> >>
    /\ Len(metadata_list) = 4
    /\ metadata_list[3]["source"] = PyStr(GoogleBooks)

----------------------------------------------------------------------------
(* Claims about format_apa_from_metadata, checked under SpecApa *)

IsPrefix(p, s) == Len(p) <= Len(s) /\ SubSeq(s, 1, Len(p)) = p

ApaDone == fpc = "format_apa"
ArgAuthors == Texts(arg["authors"].v)
ArgTitle == arg["title"].v
ArgIsArticle == arg["type"] = PyStr(Article)
ArgIsBook == arg["type"] = PyStr(Book)

\* the text of field k of arg, empty when the record does not carry it
ArgText(k) == IF k \in DOMAIN arg THEN Format(arg[k]) ELSE <<>>

\* the name as the claim writes it: last token, ", ", then the initials
NameAsClaimed(name) ==
    LET tokens == str_split(name)
        n == Len(tokens)
    IN  IF n >= 2
        THEN tokens[n] \o <<",", " ">>
             \o [i \in 1..(2 * (n - 1)) |->
                    IF i % 2 = 1 THEN tokens[(i + 1) \div 2][1] ELSE "."]
        ELSE name

RECURSIVE CommaJoined(_)
CommaJoined(names) ==
    IF Len(names) = 1 THEN names[1]
    ELSE names[1] \o <<",", " ">> \o CommaJoined(Tail(names))

ListAsClaimed(names) ==
    CASE Len(names) = 0 -> <<>>
      [] Len(names) = 1 -> names[1]
      [] OTHER -> CommaJoined(SubSeq(names, 1, Len(names) - 1))
                  \o <<",", " ", "&", " ">> \o names[Len(names)]

DoeJM == <<"D","o","e",","," ","J",".","M",".">>
DoeJ == <<"D","o","e",","," ","J",".">>
SmithJ == <<"S","m","i","t","h",","," ","J",".">>
LeeA == <<"L","e","e",","," ","A",".">>

C6_TwoAuthorsNoComma ==
    (ApaDone /\ Len(ArgAuthors) = 2) =>
        IsPrefix(format_author_list(authors_apa(ArgAuthors)) \o <<" ", "(">>, ret.v)

\* C6 amended: two authors are joined by ", & ", a comma before the ampersand:
\* ["Jane Doe", "John Smith"] gives "Doe, J., & Smith, J.".
C6_TwoAuthorsCommaAmpersand ==
    (ApaDone /\ Len(ArgAuthors) = 2) =>
        /\ IsPrefix(NameAsClaimed(ArgAuthors[1]) \o <<",", " ", "&", " ">>
                    \o NameAsClaimed(ArgAuthors[2]) \o <<" ", "(">>, ret.v)
        /\ ArgAuthors = <<JaneDoe, JohnSmith>> =>
              IsPrefix(DoeJ \o <<",", " ", "&", " ">> \o SmithJ \o <<" ", "(">>, ret.v)

C6_Witness ==
    /\ ApaDone
    /\ ArgAuthors = <<JaneDoe, JohnSmith>>
    /\ IsPrefix(DoeJ \o <<",", " ", "&", " ">> \o SmithJ, ret.v)

TheFutureOfAiCased ==
    <<"T","h","e"," ","f","u","t","u","r","e"," ","o","f"," ","a","i">>
TheGreatGatsbyCased ==
    <<"T","h","e"," ","g","r","e","a","t"," ","g","a","t","s","b","y">>

\* "{authors} ({year}). " of arg, the text before the title
ArgLead == apa_lead(arg, authors_str(authors_apa(ArgAuthors)))

\* C7: a non-empty title is written with its first character uppercased and,
\* for an article, every other character lowercased, for a book every other
\* character as it was.
C7_TitleCasing ==
    (ApaDone /\ ArgTitle # <<>> /\ (ArgIsArticle \/ ArgIsBook)) =>
        /\ IsStr(ret)
        /\ IsPrefix(ArgLead \o <<char_upper(ArgTitle[1])>>
                    \o [i \in 1..(Len(ArgTitle) - 1) |->
                          IF ArgIsArticle THEN char_lower(ArgTitle[i + 1])
                          ELSE ArgTitle[i + 1]], ret.v)
        /\ (ArgIsArticle /\ ArgTitle = TheFutureOfAi) =>
              IsPrefix(ArgLead \o TheFutureOfAiCased \o <<".", " ">>, ret.v)
        /\ (ArgIsBook /\ ArgTitle = TheGreatGatsby) =>
              IsPrefix(ArgLead \o TheGreatGatsbyCased, ret.v)

C7_Witness ==
    /\ ApaDone
    /\ ArgIsBook
    /\ ArgTitle = <<"t", " ", "F">>
    /\ IsPrefix(ArgLead \o <<"T", " ", "F">>, ret.v)

IsDigit(c) == Occurs(Digits, c)
HyphenCount(s) == Cardinality({i \in 1..Len(s) : s[i] = "-"})

\* digits, one hyphen, digits
IsPlainRange(s) ==
    /\ HyphenCount(s) = 1
    /\ s[1] # "-" /\ s[Len(s)] # "-"
    /\ \A i \in 1..Len(s) : s[i] = "-" \/ IsDigit(s[i])

\* the article text of arg before its pages
ArgBeforePages ==
    article_text(Without(arg, {"pages"}), authors_str(authors_apa(ArgAuthors)),
                 apa_cased_title(arg))

Pages123Dashed == <<"1","2","3",EnDash,"1","4","5">>

\* C8 as stated: the hyphen of a single plain range becomes an en dash, and a
\* pages value with several hyphens or that is no plain range is unmodified.
C8_OnlyPlainRangeDashed ==
    (ApaDone /\ ArgIsArticle /\ ArgText("pages") # <<>>) =>
        IsPrefix(ArgBeforePages \o <<",", " ">>
                 \o (IF IsPlainRange(ArgText("pages"))
                     THEN str_replace(ArgText("pages"), "-", EnDash)
                     ELSE ArgText("pages")), ret.v)

\* C8 amended: every hyphen of a non-empty pages value is written as an en
\* dash, whatever the shape of the value ("123-145", "S1-S10" and "10-12-15"
\* alike); a value without a hyphen ("e123") is written unmodified.
C8_EveryHyphenDashed ==
    (ApaDone /\ ArgIsArticle /\ ArgText("pages") # <<>>) =>
        LET pages == ArgText("pages")
        IN  /\ IsStr(ret)
            /\ IsPrefix(ArgBeforePages \o <<",", " ">>
                        \o [i \in 1..Len(pages) |->
                              IF pages[i] = "-" THEN EnDash ELSE pages[i]], ret.v)
            /\ pages = Pages123 =>
                  IsPrefix(ArgBeforePages \o <<",", " ">> \o Pages123Dashed, ret.v)
            /\ pages = PagesE => IsPrefix(ArgBeforePages \o <<",", " ">> \o PagesE, ret.v)
            /\ pages = PagesS1 =>
                  IsPrefix(ArgBeforePages \o <<",", " ", "S", "1", EnDash, "S", "1", "0">>,
                           ret.v)

C8_Witness ==
    /\ ApaDone
    /\ ArgIsArticle
    /\ ArgText("pages") = Pages10
    /\ IsPrefix(ArgBeforePages
                \o <<",", " ", "1", "0", EnDash, "1", "2", EnDash, "1", "5">>, ret.v)

\* the article text of arg before the closing period and the DOI
ArgArticleText ==
    article_text(arg, authors_str(authors_apa(ArgAuthors)), apa_cased_title(arg))

\* ret without the " https://doi.org/{doi}" that ends it when arg has a DOI
RetBeforeDoi ==
    IF ArgText("doi") = <<>> THEN ret.v
    ELSE SubSeq(ret.v, 1, Len(ret.v) - Len(DoiPrefix \o ArgText("doi")))

IsTerminator(c) == c \in {".", "?", "!"}

\* "?.", "!." or ". ." somewhere in s
HasDoubleTerminator(s) ==
    \/ \E i \in 1..(Len(s) - 1) : s[i] \in {"?", "!"} /\ s[i + 1] = "."
    \/ \E i \in 1..(Len(s) - 2) : s[i] = "." /\ s[i + 1] = " " /\ s[i + 2] = "."

\* C9: in the article branch a closing period is appended only if the text
\* assembled so far does not already end with '.', '?' or '!', then the DOI
\* link follows; the reference never holds "?.", "!." or ". ." before the DOI.
C9_ArticleTermination ==
    (ApaDone /\ ArgIsArticle) =>
        /\ IsStr(ret)
        /\ ret.v = RetBeforeDoi
                   \o (IF ArgText("doi") = <<>> THEN <<>> ELSE DoiPrefix \o ArgText("doi"))
        /\ RetBeforeDoi =
              (IF IsTerminator(ArgArticleText[Len(ArgArticleText)]) THEN ArgArticleText
               ELSE ArgArticleText \o <<".">>)
        /\ ~HasDoubleTerminator(RetBeforeDoi)

\* the book text as C10 writes it, before the closing period
BookAsClaimed ==
    authors_str(authors_apa(ArgAuthors)) \o <<" ", "(">> \o ArgText("year")
    \o <<")", ".", " ">> \o apa_cased_title(arg)
    \o (IF ArgText("publisher") # <<>> THEN <<".", " ">> \o ArgText("publisher") ELSE <<>>)

\* C10: the book branch writes "{authors} ({year}). {title}", then
\* ". {publisher}" when the publisher is non-empty, then one period unless the
\* text already ends with one, then " ISBN: {isbn}" when the isbn is
\* non-empty, and nothing after it.
C10_BookBranch ==
    (ApaDone /\ ArgIsBook) =>
        /\ IsStr(ret)
        /\ ret.v = (IF BookAsClaimed[Len(BookAsClaimed)] = "." THEN BookAsClaimed
                    ELSE BookAsClaimed \o <<".">>)
                   \o (IF ArgText("isbn") # <<>>
                       THEN <<" ","I","S","B","N",":"," ">> \o ArgText("isbn") ELSE <<>>)
        /\ arg = BookRecord(<<PyStr(JaneDoe)>>, Year2020, <<"x">>, Penguin, <<"9","7","8">>) =>
              ret.v = DoeJ \o <<" ","(","2","0","2","0",")","."," ","X","."," ">> \o Penguin
                      \o <<".">> \o <<" ","I","S","B","N",":"," ","9","7","8">>

C10_Witness ==
    /\ ApaDone
    /\ arg = BookRecord(<<PyStr(JaneDoe)>>, Year2020, <<"x">>, <<".">>, <<"9","7","8">>)
    /\ ret.v = DoeJ \o <<" ","(","2","0","2","0",")","."," ","X","."," ",".">>
               \o <<" ","I","S","B","N",":"," ","9","7","8">>

\* the article text of arg before its volume, issue and pages
ArgBeforeVolume ==
    article_text(Without(arg, {"volume", "issue", "pages"}),
                 authors_str(authors_apa(ArgAuthors)), apa_cased_title(arg))

\* ", {volume}" and "({issue})" as C11 writes them
VolumeAsClaimed ==
    (IF ArgText("volume") # <<>> THEN <<",", " ">> \o ArgText("volume") ELSE <<>>)
    \o (IF ArgText("volume") # <<>> /\ ArgText("issue") # <<>>
        THEN <<"(">> \o ArgText("issue") \o <<")">> ELSE <<>>)

\* ", {pages}" with every hyphen an en dash
PagesAsWritten ==
    IF ArgText("pages") = <<>> THEN <<>>
    ELSE <<",", " ">> \o [i \in 1..Len(ArgText("pages")) |->
                            IF ArgText("pages")[i] = "-" THEN EnDash
                            ELSE ArgText("pages")[i]]

\* C11: in the article branch ", {volume}" is written if and only if the
\* volume is non-empty, and "({issue})" right after it if and only if both
\* the volume and the issue are non-empty; an issue with an empty volume
\* leaves no trace in the text.
C11_VolumeIssue ==
    (ApaDone /\ ArgIsArticle) =>
        /\ IsStr(ret)
        /\ RetBeforeDoi \in
              { ArgBeforeVolume \o VolumeAsClaimed \o PagesAsWritten,
                ArgBeforeVolume \o VolumeAsClaimed \o PagesAsWritten \o <<".">> }
        /\ (ArgText("volume") = <<>> /\ ArgText("pages") = <<>>) =>
              RetBeforeDoi \in { ArgBeforeVolume, ArgBeforeVolume \o <<".">> }

C11_Witness ==
    /\ ApaDone
    /\ ArgIsArticle
    /\ ArgText("journal") = <<"x">>
    /\ ArgText("volume") = <<"7">>
    /\ ArgText("issue") = <<"2">>
    /\ ArgText("pages") = <<>>
    /\ ArgText("doi") = <<>>
    /\ ret.v = ArgBeforeVolume \o <<",", " ", "7", "(", "2", ")", ".">>

\* C12: a record whose type is neither 'article' nor 'book' (another value,
\* or no type at all) is rendered as "Unknown reference format.", whatever
\* its title and other fields, and the call does not raise.
C12_FallbackForOtherTypes ==
    ApaDone => ret = PyStr(UnknownReference)

----------------------------------------------------------------------------
(* Claims about extract_metadata, checked under SpecExtract *)

ExtractDone == fpc = "extract_metadata"

\* C3: extract_metadata never raises, whatever the shape of the raw item: it
\* always returns a record.
C3_ExtractNeverRaises == ExtractDone => (~IsRaise(ret) /\ IsDict(ret))

\* the raw item in which every optional field is absent
NoFields(item) == DOMAIN item = {} \/ item = [volumeInfo |-> PyDict(EmptyDict)]

\* field k of the record returned is the text s
RetText(k, s) == k \in DOMAIN ret.v /\ ret.v[k] = PyStr(s)

\* C4: for each adapter a raw item with every optional field absent gives,
\* without raising, the documented defaults: authors [] (Crossref, Semantic
\* Scholar) or ["Unknown"] (Google Books, Open Library), title "",
\* journal/volume/issue/pages/doi/isbn "", publisher "Unknown publisher",
\* year null (Crossref, Semantic Scholar) or empty (Google Books).
C4_DefaultsWhenAbsent ==
    (ExtractDone /\ NoFields(arg)) =>
        /\ IsDict(ret)
        /\ RetText("title", <<>>)
        /\ RetText("source", src)
        /\ src \in {Crossref, SemanticScholar} =>
              /\ ret.v["authors"] = PyList(<<>>)
              /\ ret.v["year"] = PyNone
              /\ RetText("journal", <<>>) /\ RetText("doi", <<>>)
              /\ RetText("type", Article)
        /\ src = Crossref =>
              RetText("volume", <<>>) /\ RetText("issue", <<>>) /\ RetText("pages", <<>>)
        /\ src \in {GoogleBooks, OpenLibrary} =>
              /\ ret.v["authors"] = PyList(<<PyStr(Unknown)>>)
              /\ RetText("publisher", UnknownPublisher)
              /\ RetText("isbn", <<>>)
              /\ RetText("type", Book)
        /\ src = GoogleBooks => RetText("year", <<>>)

C4_Witness ==
    /\ ExtractDone
    /\ src = GoogleBooks
    /\ arg = [volumeInfo |-> PyDict(EmptyDict)]
    /\ ret.v["authors"] = PyList(<<PyStr(Unknown)>>)
    /\ ret.v["publisher"] = PyStr(UnknownPublisher)

\* the type C18 gives the records of a source
TypeAsClaimed(source) ==
    IF source \in { <<"c","r","o","s","s","r","e","f">>,
                    <<"s","e","m","a","n","t","i","c","_","s","c","h","o","l","a","r">> }
    THEN PyStr(<<"a","r","t","i","c","l","e">>)
    ELSE PyStr(<<"b","o","o","k">>)

\* the record once the list built from it has been rendered: format_csv is
\* the one renderer that writes to a record it was given or to a copy of it
RetAggregated == extract_all(<< <<arg, src>> >>).v[1]
RetRendered == csv_entry_after(RetAggregated)

\* C18: a record returned by extract_metadata has the type of its source,
\* 'article' for crossref and semantic_scholar, 'book' for google_books and
\* open_library, whatever the raw item holds, and the source it was called
\* with; aggregation and rendering leave its type and source as they were.
C18_TypeBySource ==
    (ExtractDone /\ IsDict(ret)) =>
        /\ ret.v["type"] = TypeAsClaimed(src)
        /\ ret.v["source"] = PyStr(src)
        /\ RetAggregated["type"] = ret.v["type"]
        /\ RetAggregated["source"] = ret.v["source"]
        /\ RetRendered["type"] = ret.v["type"]
        /\ RetRendered["source"] = ret.v["source"]

C18_Witness ==
    /\ ExtractDone
    /\ src = OpenLibrary
    /\ arg = [type |-> PyStr(Article)]
    /\ IsDict(ret)
    /\ ret.v["type"] = PyStr(Book)
    /\ ret.v["source"] = PyStr(OpenLibrary)

----------------------------------------------------------------------------
(* Claims about the renderers, checked under SpecRender *)

RenderDone == fpc \in {"format_json", "format_csv", "format_bibtex", "format_text"}

\* C2: every renderer is total over the records an adapter can produce (an
\* empty title, no authors, an empty author name, a null year included): it
\* returns a string and never raises.
C2_RenderersTotal == RenderDone => IsStr(ret)

\* the header row of the CSV output as C13 and C14 write it
HeaderAsClaimed ==
    <<"t", "y", "p", "e", ",", "a", "u", "t", "h", "o", "r", "s", ",", "t", "i", "t",
      "l", "e", ",", "y", "e", "a", "r", ",", "j", "o", "u", "r", "n", "a", "l", ",",
      "v", "o", "l", "u", "m", "e", ",", "i", "s", "s", "u", "e", ",", "p", "a", "g",
      "e", "s", ",", "d", "o", "i", ",", "p", "u", "b", "l", "i", "s", "h", "e", "r",
      ",", "i", "s", "b", "n", ",", "s", "o", "u", "r", "c", "e">>
\* C13: an empty list is rendered as "[]" in JSON, as the header row and one
\* line terminator in CSV, and as the empty string in BibTeX and in APA text.
C13_EmptyListRendering ==
    (RenderDone /\ arg = <<>>) =>
        /\ fpc = "format_json" => ret = PyStr(<<"[", "]">>)
        /\ fpc = "format_csv" => ret = PyStr(HeaderAsClaimed \o <<"\r", "\n">>)
        /\ fpc = "format_bibtex" => ret = PyStr(<<>>)
        /\ fpc = "format_text" => ret = PyStr(<<>>)

C13_Witness ==
    /\ arg = <<>>
    /\ fpc = "format_csv"
    /\ ret = PyStr(HeaderAsClaimed \o <<"\r", "\n">>)

\* the columns of the CSV output in the order C14 lists them
ColumnsAsClaimed ==
    << "type", "authors", "title", "year", "journal", "volume", "issue", "pages", "doi",
       "publisher", "isbn", "source" >>

\* the text of column k of a record: its authors joined by ", ", the value of
\* another field, nothing for a field the record lacks or holds as null
CellAsClaimed(rec, k) ==
    IF k \notin DOMAIN rec \/ rec[k] = PyNone THEN <<>>
    ELSE IF k = "authors" THEN str_join(<<",", " ">>, Texts(rec[k].v))
    ELSE Format(rec[k])

\* a cell holding a comma is written between double quotes
Quoted(text) ==
    IF \E i \in 1..Len(text) : text[i] = "," THEN <<"\"">> \o text \o <<"\"">> ELSE text

RowAsClaimed(rec) ==
    str_join(<<",">>, [i \in 1..Len(ColumnsAsClaimed) |->
                         Quoted(CellAsClaimed(rec, ColumnsAsClaimed[i]))])
    \o <<"\r", "\n">>

RECURSIVE RowsAsClaimed(_)
RowsAsClaimed(recs) ==
    IF recs = <<>> THEN <<>> ELSE RowAsClaimed(Head(recs)) \o RowsAsClaimed(Tail(recs))

CrossrefRowText ==
    <<"a", "r", "t", "i", "c", "l", "e", ",", "\"", "J", "a", "n", "e", " ", "D", "o",
      "e", ",", " ", "P", "l", "a", "t", "o", "\"", ",", "t", "h", "e", " ", "F", "u",
      "t", "u", "r", "e", " ", "o", "f", " ", "a", "i", ",", "2", "0", "2", "0", ",",
      ",", "7", ",", ",", "1", "2", "3", "-", "1", "4", "5", ",", ",", ",", ",", "c",
      "r", "o", "s", "s", "r", "e", "f", "\r", "\n">>

SemanticScholarRowText ==
    <<"a", "r", "t", "i", "c", "l", "e", ",", "A", "n", "n", " ", "L", "e", "e", ",",
      "t", "h", "e", " ", "F", "u", "t", "u", "r", "e", " ", "o", "f", " ", "a", "i",
      ",", "2", "0", "2", "0", ",", "n", "a", "t", "u", "r", "e", ",", ",", ",", ",",
      ",", ",", ",", "s", "e", "m", "a", "n", "t", "i", "c", "_", "s", "c", "h", "o",
      "l", "a", "r", "\r", "\n">>

\* C14: the CSV output is the header row type, authors, title, year, journal,
\* volume, issue, pages, doi, publisher, isbn, source, then one row per record
\* in input order; the authors are joined with ", " into one cell, a column
\* the record lacks is empty, and a field outside the columns (url) is
\* dropped without error.
C14_CsvRows ==
    (RenderDone /\ fpc = "format_csv") =>
        /\ ret = PyStr(HeaderAsClaimed \o <<"\r", "\n">> \o RowsAsClaimed(arg))
        /\ arg = <<extract_metadata(FullCrossrefItem, Crossref).v>> =>
              ret.v = HeaderAsClaimed \o <<"\r", "\n">> \o CrossrefRowText

C14_Witness ==
    /\ fpc = "format_csv"
    /\ Len(arg) = 2
    /\ arg[1] = extract_metadata(FullCrossrefItem, Crossref).v
    /\ "url" \in DOMAIN arg[2]
    /\ arg[2]["url"] = PyStr(PaperUrl)
    /\ "publisher" \notin DOMAIN arg[2]
    /\ ret = PyStr(HeaderAsClaimed \o <<"\r", "\n">> \o CrossrefRowText
                   \o SemanticScholarRowText)

\* the citation key of rec as C15 writes it, for a record whose first author
\* has a token
KeyAsClaimed(rec) ==
    LET author == str_split(rec["authors"].v[1].v)
        year == IF "year" \in DOMAIN rec /\ rec["year"].t # "none"
                            /\ (rec["year"].t = "str" => rec["year"].v # <<>>)
                THEN Format(rec["year"]) ELSE <<"0","0","0","0">>
        title == IF "title" \in DOMAIN rec /\ rec["title"] # PyStr(<<>>)
                 THEN str_split(rec["title"].v)[1] ELSE <<"u","n","t","i","t","l","e","d">>
    IN  str_lower(author[Len(author)] \o year \o title)

HasFirstAuthor(rec) ==
    /\ "authors" \in DOMAIN rec
    /\ rec["authors"].v # <<>>
    /\ str_split(rec["authors"].v[1].v) # <<>>

\* C15: the citation key of a record is the lowercase of the last token of
\* its first author, its year ("0000" when the year is empty or absent) and
\* the first token of its title ("untitled" when the title is empty or
\* absent); the BibTeX block of the record opens with "@{type}{{key},".
C15_BibtexKey ==
    (fpc = "format_bibtex" /\ Len(arg) = 1 /\ HasFirstAuthor(arg[1])) =>
        /\ IsStr(ret)
        /\ IsPrefix(<<"@">> \o Format(arg[1]["type"]) \o <<"{">> \o KeyAsClaimed(arg[1])
                    \o <<",">>, ret.v)

\* "  name = {value}" for the field k of rec when its value is non-empty
FieldAsClaimed(rec, k, name) ==
    IF k \in DOMAIN rec /\ rec[k].t # "none" /\ Format(rec[k]) # <<>>
    THEN << <<" ", " ">> \o name \o <<" ", "=", " ", "{">> \o Format(rec[k]) \o <<"}">> >>
    ELSE <<>>

\* the fields of a block in the order C16 gives
FieldsAsClaimed(rec) ==
    (IF rec["authors"].v # <<>>
     THEN << <<" "," ","a","u","t","h","o","r"," ","="," ","{">>
             \o str_join(<<" ","a","n","d"," ">>, Texts(rec["authors"].v)) \o <<"}">> >>
     ELSE <<>>)
    \o FieldAsClaimed(rec, "title", <<"t","i","t","l","e">>)
    \o FieldAsClaimed(rec, "year", <<"y","e","a","r">>)
    \o (IF rec["type"] = PyStr(Article)
        THEN FieldAsClaimed(rec, "journal", <<"j","o","u","r","n","a","l">>)
             \o FieldAsClaimed(rec, "volume", <<"v","o","l","u","m","e">>)
             \o FieldAsClaimed(rec, "issue", <<"n","u","m","b","e","r">>)
             \o FieldAsClaimed(rec, "pages", <<"p","a","g","e","s">>)
             \o FieldAsClaimed(rec, "doi", <<"d","o","i">>)
        ELSE FieldAsClaimed(rec, "publisher", <<"p","u","b","l","i","s","h","e","r">>)
             \o FieldAsClaimed(rec, "isbn", <<"i","s","b","n">>))

\* the block of rec around the key
BlockAsClaimed(rec, key) ==
    <<"@">> \o str_lower(Format(rec["type"])) \o <<"{">> \o key \o <<",", "\n">>
    \o str_join(<<",", "\n">>, FieldsAsClaimed(rec)) \o <<"\n", "}">>

\* C16: the BibTeX output has one block "@{type}{{key}," fields "}" per record,
\* the type in lowercase, a field only when its value is non-empty, the fields
\* in the order author (joined by " and "), title, year, then journal, volume,
\* number, pages, doi for an article and publisher, isbn for a book; the
\* blocks are joined by one blank line in input order.
C16_BibtexBlocks ==
    fpc = "format_bibtex" =>
        /\ IsStr(ret)
        /\ ret.v = str_join(<<"\n", "\n">>,
                      [i \in 1..Len(arg) |->
                          BlockAsClaimed(arg[i], generate_bibtex_key(arg[i]).v)])

----------------------------------------------------------------------------
(* Claims about repeated rendering, checked under SpecRerender *)

----------------------------------------------------------------------------
(* Claims about the provider searches and the cache, checked under SpecSearch *)

SearchDone ==
    fpc \in {"search_crossref", "search_google_books", "search_semantic_scholar",
             "search_open_library"}

\* the cache file the search found
FileBefore == calls[1].before

\* the file is an entry: an object with a timestamp that reads as a time and
\* with a list of results
IsEntry(file) ==
    /\ file.t = "json"
    /\ IsDict(file.v)
    /\ {"timestamp", "results"} \subseteq DOMAIN file.v.v
    /\ IsStr(file.v.v["timestamp"])
    /\ file.v.v["timestamp"].v # <<>>
    /\ \A i \in 1..Len(file.v.v["timestamp"].v) : IsDigit(file.v.v["timestamp"].v[i])
    /\ IsList(file.v.v["results"])

\* the age of an entry, in hours
EntryAge(file) == clock - digits_value(file.v.v["timestamp"].v)

\* C19: with caching enabled, a search that finds an entry under 24 hours old
\* returns the stored results and makes no live fetch (the file stays as it
\* was); a search that finds no entry, an unreadable one or one 24 hours old
\* or older fetches and overwrites the entry with the outcome of that fetch,
\* so that the entry it found does not survive.
C19_CacheOrFetch ==
    (SearchDone /\ arg.use_cache) =>
        IF IsEntry(FileBefore) /\ EntryAge(FileBefore) < 24
        THEN /\ ret = FileBefore.v.v["results"]
             /\ cache_file = FileBefore
        ELSE /\ cache_file # FileBefore
             /\ IsEntry(cache_file)
             /\ EntryAge(cache_file) = 0
             /\ cache_file.v.v["results"] = ret

\* C20: a provider search never raises to its caller, and when the request
\* fails, the status is an error or the body is not what the provider is
\* expected to answer, it returns the empty list.
C20_SearchNeverRaises ==
    SearchDone =>
        /\ ~IsRaise(ret)
        /\ (~arg.use_cache /\ response.t # "json") => (IsList(ret) /\ ret.v = <<>>)


----------------------------------------------------------------------------
(* Claims about the cache key, checked under SpecQuery *)

\* the text hashed for the query of a call
HashedFor(call) ==
    query_string(call.before.author, call.before.year, call.before.keyword,
                 call.before.source)

\* every item the call returned is the provider's answer to the call's query
AnswersOwnQuery(call) ==
    call.out.t = "list" =>
        \A i \in 1..Len(call.out.v) :
            /\ call.out.v[i].v["author"] = PyStr(call.before.author)
            /\ call.out.v[i].v["year"] = PyInt(call.before.year)
            /\ call.out.v[i].v["keyword"] = PyStr(call.before.keyword)
            /\ call.out.v[i].v["source"] = PyStr(call.before.source)

\* C23: the text generate_query_hash hashes is different for any two
\* different (author, year, keyword, source) tuples, authors and keywords
\* that hold the separator '|' included, so that (the hash taken as
\* collision-free) no search returns results that were cached for another
\* author, year, keyword or provider.
C23_KeyIdentifiesQuery ==
    /\ \A i, j \in 1..Len(calls) :
          calls[i].before # calls[j].before => HashedFor(calls[i]) # HashedFor(calls[j])
    /\ \A i \in 1..Len(calls) : AnswersOwnQuery(calls[i])


----------------------------------------------------------------------------
(* Claims about the search button, checked under FairSpec *)

\* C21: every search that perform_search starts (button disabled, worker
\* started) eventually re-enables the search button, whichever way the
\* search ends: results found, no results, a failure inside the worker, or a
\* failure in process_results while the results are turned into records; and
\* no search is started while the button is disabled.
C21_SearchButtonReenabled ==
    /\ (~search_button) ~> search_button
    /\ [][searches' # searches => search_button]_vars


----------------------------------------------------------------------------
(* Claims about saving, checked under SpecSave *)

\* a save from the text view that wrote its file
SavedFromTextView(call) ==
    /\ call.f = "save_results"
    /\ call.before.currentIndex = TextView
    /\ call.out.t # "missing"

\* the rendering of the records in the format, when there is one
RenderingAsClaimed(call) ==
    formatted(call.before.format_type, call.before.metadata_list)

\* C22: whenever Save or Append is enabled and pressed in the text view, the
\* user having edited nothing, the text written is the rendering of the
\* records of the most recent completed search in the format the selector
\* shows at that moment, which is also the format that gives the file its
\* extension; the text is never empty, stale or in another format.
C22_SavedTextIsRendering ==
    \A i \in 1..Len(calls) :
        SavedFromTextView(calls[i]) =>
            /\ ~IsRaise(RenderingAsClaimed(calls[i]))
            /\ calls[i].out.output = RenderingAsClaimed(calls[i]).v
            /\ calls[i].out.file_path[Len(calls[i].out.file_path)] =
                  default_ext(calls[i].before.format_type)

====
